---- MODULE Spec2Model ----
(***************************************************************************)
(* Verification model of eufy-security-python.                             *)
(*                                                                         *)
(*   Channel        src/src/clients/websocket_client.py  (WebSocketClient) *)
(*   Health monitor src/src/services/device_health_checker.py              *)
(*   Timeout sweep  src/src/services/state_timeout_checker.py              *)
(*   Directory      src/src/services/camera_registry.py                    *)
(*                                                                         *)
(* Every coroutine is modelled at its real suspension points: an `await`   *)
(* of a coroutine that never blocks (an uncontended asyncio.Lock, the      *)
(* synchronous file rewrite) does not yield to the event loop, so the code *)
(* between two blocking awaits is one atomic action.                       *)
(***************************************************************************)
EXTENDS Integers, Sequences, FiniteSets, TLC

(***************************************************************************)
(* Bounds of the model                                                     *)
(***************************************************************************)
\* environment events (commands issued, transports dropped, connections
\* refused) in one run of the whole channel
MaxEnv == 2
\* gateway faults (transports dropped, connections refused) in one run of
\* the listen loop alone
MaxFaults == 4
MaxIds == MaxEnv
MaxHandles == MaxEnv + MaxFaults + 2
\* passes of the health monitor in one run
MaxTicks == 6
\* hours of wall-clock time in one run
MaxHours == 24
\* passes of the timeout sweep in one run
MaxPasses == 3
\* motion notifications in one run
MaxNotes == 3
\* minutes of wall-clock time in one run
MaxMinutes == 120
\* failures of the directory file's rewrite the environment may inject
MaxSaveFaults == 1
MaxOfflineSaveFaults == 1
MaxRestarts == 1
MaxClock == 7

Senders == {"s1", "s2"}
None == 0

(***************************************************************************)
(* Program constants                                                       *)
(***************************************************************************)
max_attempts == 3
failure_threshold == 3
battery_cooldown_hours == 24
OfflineCooldownHours == 24
\* hours that pass in one step of the clock
HoursPerStep == 12
timeout_minutes == 60
\* minutes that pass in one step of the clock
MinutesPerStep == 30

\* camera_registry.get_all_cameras(): a HomeBase camera and a standalone one
motion_timeout == 2
max_duration == 4
snooze_duration == 2
Cams == <<"T8600P1", "T8B0S2">>
Devices == {Cams[i] : i \in 1..Len(Cams)}

VARIABLES
    \* ----- WebSocketClient -----
    ws,             \* self.ws: None or the current transport handle
    transport,      \* handle -> "unused" | "live" | "closedErr" | "closedOK"
    initSent,       \* handles on which the start_listening command was sent
    torn,           \* handles torn down by disconnect() or _reconnect()
    running,        \* self._running
    lpc,            \* position of the start_listening task
    attempt,        \* retry_async attempt number of the connect in progress
    cctx,           \* caller of the connect in progress: "loop" | "reconnect"
    ch,             \* handle created by the connect attempt in progress
    rh,             \* handle the `async for` is iterating
    dpc,            \* position of disconnect()
    pending,        \* self._pending_requests: messageId -> waiter (its sender)
    fut,            \* sender -> the Future of its current send
    spc,            \* sender -> position in _send_command_with_response
    sid,            \* sender -> message_id of its current send
    sh,             \* sender -> handle its current send was written to
    sres,           \* sender -> value returned by its last completed send
    nextId,         \* next fresh uuid4
    nextHandle,     \* next fresh transport handle
    envLeft,        \* environment events still allowed in this run
    lastOutcome     \* what _handle_event did with the last frame

chanVars == <<ws, transport, initSent, torn, running, lpc, attempt, cctx, ch, rh,
              dpc, pending, fut, spc, sid, sh, sres, nextId, nextHandle, envLeft,
              lastOutcome>>

VARIABLES
    \* ----- DeviceHealthChecker -----
    failure_counts,              \* self.failure_counts: serial -> count
    offline_devices_timestamps,  \* self.offline_devices_timestamps: serial -> stamp
    offline_file,                \* content of OFFLINE_DEVICES_FILE
    last_battery_alert,          \* self.last_battery_alert: serial -> time
    hpc,            \* position of the _run_loop task
    hcam,           \* index of the camera being checked in this pass
    hnow,           \* get_brasilia_now(), in hours
    batNow,         \* `now` captured by _send_low_battery_alert
    ticks,          \* passes of _check_all_cameras started so far
    up,             \* serial -> the device answers probes
    offlineAlerts,  \* serial -> CameraOfflineEvent hand-overs to the webhook so far
    sinceSuccess,   \* serial -> offline alerts since its last successful probe
    sinceClear,     \* serial -> offline alerts since it last had no offline record
    scen,           \* serial -> progress through "three failed ticks, then a fourth"
    errorSink,      \* operations reported to error_logger.log_failed_retry
    batTried,       \* serial -> `now` of its last LowBatteryEvent hand-over
    offlineSaveFaults,  \* writes of OFFLINE_DEVICES_FILE that can still fail
    restarts,       \* times the process was restarted and the monitor rebuilt
    stopReturned    \* the background loops whose stop() has returned

healthVars == <<failure_counts, offline_devices_timestamps, offline_file,
                last_battery_alert, hpc, hcam, hnow, batNow, ticks, up,
                offlineAlerts, sinceSuccess, sinceClear, scen, errorSink,
                batTried, offlineSaveFaults, restarts, stopReturned>>

VARIABLES
    \* ----- CameraRegistry, StateTimeoutChecker, motion event log -----
    cameras,        \* CameraRegistry.cameras: serial -> [state, latest_activity]
    registry_file,  \* content of the registry file after the last save()
    event_log,      \* motion handler's buffer: serial -> notifications
    snow,           \* get_brasilia_now(), in minutes
    wpc,            \* position of the sweep's _run_loop task
    open_cameras,   \* the list _check_timeouts iterates
    widx,           \* index in open_cameras of the camera being closed
    sweepNow,       \* `now` taken at the start of the pass
    closing,        \* the event handed to send_event and the log drained for it
    passes,         \* passes of _check_timeouts started so far
    nextNote,       \* next motion notification
    opens,          \* serial -> closed->open transitions so far
    openedAlerts,   \* serial -> 'opened' alerts emitted so far
    closes,         \* serial -> open->closed transitions so far
    closedAlerts,   \* serial -> 'closed' alerts delivered so far
    lastClosed,     \* serial -> payload of its last delivered 'closed' alert
    lastDrained,    \* serial -> log drained for that alert
    lastClose,      \* serial -> "none" | "sending" | "delivered" | "failed"
    saveFaults,     \* failures of the directory file's rewrite still to come
    lastSave,       \* outcome of the latest rewrite: "ok" | "failed"
    openedAt,       \* serial -> time of the notification that opened its cycle
    lockUse         \* the lock hold in which the latest close mutated the
                    \* directory, rewrote the file and drained the buffer

sweepVars == <<cameras, registry_file, event_log, snow, wpc, open_cameras, widx,
               sweepNow, closing, passes, nextNote, opens, openedAlerts, closes,
               closedAlerts, lastClosed, lastDrained, lastClose, saveFaults,
               lastSave, lockUse, openedAt>>

VARIABLES
    \* ----- MotionAlarmHandler (recording lifecycle) and VideoRecorder -----
    is_recording,       \* MotionState.is_recording of the device
    active_recordings,  \* device_sn in VideoRecorder.active_recordings
    no_motion_task,     \* MotionState.no_motion_task: due time of the task it names
    max_duration_task,  \* MotionState.max_duration_task: due time of the task it names
    tasks,              \* timer tasks that are not done: [kind, due]
    snooze_until,       \* MotionState.snooze_until
    last_motion_time,   \* MotionState.last_motion_time
    rnow,               \* datetime.now() / the event loop's clock, in ticks
    mpc,                \* where the awaited call of on_motion_detected stands
    detectedAlerts,     \* MotionDetectedEvent deliveries
    stoppedAlerts,      \* MotionStoppedEvent deliveries
    recErrors,          \* operations reported to error_logger.log_failed_retry
    lastMotion          \* what the last on_motion_detected did

recVars == <<is_recording, active_recordings, no_motion_task, max_duration_task,
             tasks, snooze_until, last_motion_time, rnow, mpc, detectedAlerts,
             stoppedAlerts, recErrors, lastMotion>>

vars == <<chanVars, recVars, healthVars, sweepVars, recVars>>

Handles == 1..MaxHandles
Ids == 1..MaxIds

(***************************************************************************)
(* Frames                                                                  *)
(***************************************************************************)
NoFrame == [type |-> "none", messageId |-> None, payload |-> 0,
            nested |-> FALSE, kind |-> ""]

ResultFrame(m, p) == [type |-> "result", messageId |-> m, payload |-> p,
                      nested |-> FALSE, kind |-> ""]

EventFrame(t, n, k) == [type |-> t, messageId |-> None, payload |-> 0,
                        nested |-> n, kind |-> k]

\* Handlers registered through on(): event kind -> handler
event_handlers == {"motion detected"}

Frames ==
    {ResultFrame(m, p) : m \in 0..MaxIds, p \in 1..2}
    \cup {EventFrame("event", TRUE, k) : k \in {"motion detected", "unregistered", ""}}
    \cup {EventFrame("event", FALSE, "motion detected"),
          EventFrame("version", FALSE, ""),
          EventFrame("version", TRUE, "motion detected"),
          EventFrame("notjson", FALSE, ""),
          EventFrame("nonobject", FALSE, "")}

NoFuture == [state |-> "none", result |-> NoFrame]

(***************************************************************************)
(* dict helpers                                                            *)
(***************************************************************************)
DictSet(d, k, v) == [i \in (DOMAIN d) \cup {k} |-> IF i = k THEN v ELSE d[i]]

DictPop(d, k) == [i \in (DOMAIN d) \ {k} |-> d[i]]

EmptyDict == [i \in {} |-> 0]

(***************************************************************************)
(* Initial state: WebSocketClient.__init__, listener task created          *)
(***************************************************************************)
ChanInit(budget) ==
    /\ ws = None
    /\ transport = [h \in Handles |-> "unused"]
    /\ initSent = {}
    /\ torn = {}
    /\ running = FALSE
    /\ lpc = "init"
    /\ attempt = 0
    /\ cctx = "loop"
    /\ ch = None
    /\ rh = None
    /\ dpc = "idle"
    /\ pending = EmptyDict
    /\ fut = [s \in Senders |-> NoFuture]
    /\ spc = [s \in Senders |-> "idle"]
    /\ sid = [s \in Senders |-> None]
    /\ sh = [s \in Senders |-> None]
    /\ sres = [s \in Senders |-> NoFrame]
    /\ nextId = 1
    /\ nextHandle = 1
    /\ envLeft = budget
    /\ lastOutcome = "none"

\* the environment may still issue a command, drop a transport or refuse a connection
EnvLeft == envLeft > 0

sendVars == <<pending, fut, spc, sid, sh, sres, nextId>>
envVars == <<envLeft>>
frameVars == <<lastOutcome>>

\* a step that handles no frame
NoFrameHandled == lastOutcome' = "none"

(***************************************************************************)
(* start_listening                                                         *)
(***************************************************************************)
\* ws.close() of an open transport closes it normally
Closed(t, h) == IF h # None /\ t[h] = "live" THEN [t EXCEPT ![h] = "closedOK"] ELSE t

\* `while self._running:` down to the next blocking await
LoopTop(run, w) ==
    IF ~run THEN
        /\ lpc' = "exited"
        /\ UNCHANGED <<attempt, cctx, rh>>
    ELSE IF w = None THEN
        /\ lpc' = "connecting"
        /\ attempt' = 1
        /\ cctx' = "loop"
        /\ UNCHANGED rh
    ELSE
        /\ lpc' = "reading"
        /\ rh' = w
        /\ UNCHANGED <<attempt, cctx>>

\* _reconnect up to its sleep: close and discard the handle
ReconnectBegin ==
    /\ transport' = Closed(transport, ws)
    /\ torn' = IF ws # None THEN torn \cup {ws} ELSE torn
    /\ ws' = None
    /\ lpc' = "rsleep"
    /\ UNCHANGED <<attempt, cctx, rh>>

\* the `except` clauses of start_listening
LoopExcept ==
    IF running THEN ReconnectBegin
    ELSE /\ LoopTop(running, ws)
         /\ UNCHANGED <<ws, transport, torn>>

ListenStart ==
    /\ lpc = "init"
    /\ running' = TRUE
    /\ LoopTop(TRUE, ws)
    /\ UNCHANGED <<ws, transport, initSent, torn, ch, dpc>>
    /\ UNCHANGED <<sendVars, envVars, nextHandle>>
    /\ NoFrameHandled
    /\ UNCHANGED <<healthVars, sweepVars, recVars>>

AttemptFailed_no_retry ==
    IF cctx = "loop" THEN
        LoopExcept
    ELSE
        /\ LoopTop(running, ws)
        /\ UNCHANGED <<ws, transport, torn>>

\* an attempt of _connect_with_retry raised
AttemptFailed ==
    IF attempt < max_attempts THEN
        /\ lpc' = "backoff"
        /\ UNCHANGED <<ws, transport, torn, attempt, cctx, rh>>
    ELSE IF cctx = "loop" THEN
        LoopExcept
    ELSE
        /\ LoopTop(running, ws)
        /\ UNCHANGED <<ws, transport, torn>>

\* websockets.connect(...) is refused
ConnectRefused ==
    /\ lpc = "connecting"
    /\ EnvLeft
    /\ envLeft' = envLeft - 1
    /\ AttemptFailed
    /\ UNCHANGED <<initSent, running, ch, dpc, nextHandle>>
    /\ UNCHANGED sendVars
    /\ NoFrameHandled
    /\ UNCHANGED <<healthVars, sweepVars, recVars>>

\* self.ws = await websockets.connect(...)
ConnectAccepted ==
    /\ lpc = "connecting"
    /\ nextHandle <= MaxHandles
    /\ ws' = nextHandle
    /\ ch' = nextHandle
    /\ transport' = [transport EXCEPT ![nextHandle] = "live"]
    /\ nextHandle' = nextHandle + 1
    /\ lpc' = "initsend"
    /\ UNCHANGED <<initSent, torn, running, attempt, cctx, rh, dpc>>
    /\ UNCHANGED <<sendVars, envVars>>
    /\ NoFrameHandled
    /\ UNCHANGED <<healthVars, sweepVars, recVars>>

\* await self.ws.send(start_listening) returns; connect() returns
InitSendOk ==
    /\ lpc = "initsend"
    /\ transport[ch] = "live"
    /\ initSent' = initSent \cup {ch}
    /\ IF cctx = "loop" /\ ws # None THEN
           /\ lpc' = "reading"
           /\ rh' = ws
           /\ UNCHANGED <<ws, transport, torn, attempt, cctx>>
       ELSE IF cctx = "loop" THEN
           LoopExcept
       ELSE
           /\ LoopTop(running, ws)
           /\ UNCHANGED <<ws, transport, torn>>
    /\ UNCHANGED <<running, ch, dpc, nextHandle>>
    /\ UNCHANGED <<sendVars, envVars>>
    /\ NoFrameHandled
    /\ UNCHANGED <<healthVars, sweepVars, recVars>>

\* await self.ws.send(start_listening) raises on a closed transport
InitSendFails ==
    /\ lpc = "initsend"
    /\ transport[ch] # "live"
    /\ AttemptFailed
    /\ UNCHANGED <<initSent, running, ch, dpc, nextHandle>>
    /\ UNCHANGED <<sendVars, envVars>>
    /\ NoFrameHandled
    /\ UNCHANGED <<healthVars, sweepVars, recVars>>

\* await asyncio.sleep(current_delay) in retry_async
Backoff ==
    /\ lpc = "backoff"
    /\ lpc' = "connecting"
    /\ attempt' = attempt + 1
    /\ UNCHANGED <<ws, transport, initSent, torn, running, cctx, ch, rh, dpc, nextHandle>>
    /\ UNCHANGED <<sendVars, envVars>>
    /\ NoFrameHandled
    /\ UNCHANGED <<healthVars, sweepVars, recVars>>

\* await asyncio.sleep(self.reconnect_delay), then connect()
ReconnectSleepDone ==
    /\ lpc = "rsleep"
    /\ lpc' = "connecting"
    /\ attempt' = 1
    /\ cctx' = "reconnect"
    /\ UNCHANGED <<ws, transport, initSent, torn, running, ch, rh, dpc, nextHandle>>
    /\ UNCHANGED <<sendVars, envVars>>
    /\ NoFrameHandled
    /\ UNCHANGED <<healthVars, sweepVars, recVars>>

\* the iteration raises ConnectionClosed
ReadClosedErr ==
    /\ lpc = "reading"
    /\ transport[rh] = "closedErr"
    /\ LoopExcept
    /\ UNCHANGED <<initSent, running, ch, dpc, nextHandle>>
    /\ UNCHANGED <<sendVars, envVars>>
    /\ NoFrameHandled
    /\ UNCHANGED <<healthVars, sweepVars, recVars>>

\* the iteration ends without raising (normal closure)
ReadClosedOK ==
    /\ lpc = "reading"
    /\ transport[rh] = "closedOK"
    /\ LoopTop(running, ws)
    /\ UNCHANGED <<ws, transport, initSent, torn, running, ch, dpc, nextHandle>>
    /\ UNCHANGED <<sendVars, envVars>>
    /\ NoFrameHandled
    /\ UNCHANGED <<healthVars, sweepVars, recVars>>

(***************************************************************************)
(* _handle_event                                                           *)
(***************************************************************************)
\* json.loads(message): text that is not JSON raises JSONDecodeError, any
\* other text yields the decoded value (an object, or a list/number/string)
json_loads(f) ==
    IF f.type = "notjson" THEN "JSONDecodeError"
    ELSE IF f.type = "nonobject" THEN "value"
    ELSE "object"

\* the branch taken for a frame
Outcome(f) ==
    IF json_loads(f) = "JSONDecodeError" THEN "decode_error"
    ELSE IF json_loads(f) = "value" THEN "error"
    ELSE IF f.type = "result" THEN
        IF f.messageId # None /\ f.messageId \in DOMAIN pending THEN
            IF fut[pending[f.messageId]].state = "pending" THEN "resolved" ELSE "late"
        ELSE "unknown"
    ELSE IF f.type = "event" /\ f.nested THEN
        IF f.kind = "" THEN "notype"
        ELSE IF f.kind \in event_handlers THEN "dispatched" ELSE "nohandler"
    ELSE IF f.nested THEN "error"
    ELSE IF f.kind = "" THEN "notype"
    ELSE IF f.kind \in event_handlers THEN "dispatched" ELSE "nohandler"

\* what the loop leaves behind for a frame: a frame that raised is logged
\* by the except clauses of start_listening, a frame without event type or
\* handler is dropped with a log line inside _handle_event
Logged(o) ==
    IF o \in {"decode_error", "error"} THEN "error"
    ELSE IF o \in {"notype", "nohandler"} THEN "dropped"
    ELSE o

Waiter_oldest(f) ==
    pending[CHOOSE m \in DOMAIN pending : \A n \in DOMAIN pending : m <= n]

\* the waiter a result frame resolves
Waiter(f) == pending[f.messageId]

_handle_event_any_result(f) ==
    /\ lastOutcome' = Logged(Outcome(f))
    /\ IF f.type = "result" THEN
           fut' = [s \in Senders |->
                     IF fut[s].state = "pending"
                     THEN [state |-> "done", result |-> f] ELSE fut[s]]
       ELSE UNCHANGED fut

_handle_event(f) ==
    /\ lastOutcome' = Logged(Outcome(f))
    /\ IF Outcome(f) = "resolved" THEN
           fut' = [fut EXCEPT ![Waiter(f)] = [state |-> "done", result |-> f]]
       ELSE UNCHANGED fut

\* one iteration of `async for message in self.ws`
RecvFrame(f) ==
    /\ lpc = "reading"
    /\ transport[rh] = "live"
    /\ _handle_event(f)
    /\ lpc' = IF Outcome(f) = "dispatched" THEN "handling" ELSE "reading"
    /\ UNCHANGED <<ws, transport, initSent, torn, running, attempt, cctx, ch, rh,
                   dpc, nextHandle>>
    /\ UNCHANGED <<pending, spc, sid, sh, sres, nextId, envVars>>
    /\ UNCHANGED <<healthVars, sweepVars, recVars>>

HandlerDone_propagating(raised) ==
    /\ lpc = "handling"
    /\ lastOutcome' = IF raised THEN "handler_error" ELSE "none"
    /\ IF raised THEN LoopExcept
       ELSE /\ lpc' = "reading"
            /\ UNCHANGED <<ws, transport, torn, attempt, cctx, rh>>
    /\ UNCHANGED <<initSent, running, ch, dpc, nextHandle>>
    /\ UNCHANGED <<sendVars, envVars>>
    /\ UNCHANGED <<healthVars, sweepVars, recVars>>

\* `await handler(event_data)` returns or raises; the raise is caught and
\* logged inside _handle_event and the loop goes on to the next frame
HandlerDone(raised) ==
    /\ lpc = "handling"
    /\ lastOutcome' = IF raised THEN "handler_error" ELSE "none"
    /\ lpc' = "reading"
    /\ UNCHANGED <<ws, transport, initSent, torn, running, attempt, cctx, ch, rh,
                   dpc, nextHandle>>
    /\ UNCHANGED <<sendVars, envVars>>
    /\ UNCHANGED <<healthVars, sweepVars, recVars>>

(***************************************************************************)
(* disconnect                                                              *)
(***************************************************************************)
\* self._running = False; self._reconnect_task is None; await self.ws.close()
DisconnectStart ==
    /\ dpc = "idle"
    /\ running' = FALSE
    /\ transport' = Closed(transport, ws)
    /\ torn' = IF ws # None THEN torn \cup {ws} ELSE torn
    /\ dpc' = IF ws # None THEN "closing" ELSE "done"
    /\ UNCHANGED <<ws, initSent, lpc, attempt, cctx, ch, rh, nextHandle>>
    /\ UNCHANGED <<sendVars, envVars>>
    /\ NoFrameHandled
    /\ UNCHANGED <<healthVars, sweepVars, recVars>>

DisconnectFinish_clearing ==
    /\ dpc = "closing"
    /\ ws' = None
    /\ dpc' = "done"
    /\ pending' = EmptyDict
    /\ UNCHANGED <<transport, initSent, torn, running, lpc, attempt, cctx, ch, rh, nextHandle>>
    /\ UNCHANGED <<fut, spc, sid, sh, sres, nextId, envVars>>
    /\ NoFrameHandled
    /\ UNCHANGED <<healthVars, sweepVars, recVars>>

\* self.ws = None
DisconnectFinish ==
    /\ dpc = "closing"
    /\ ws' = None
    /\ dpc' = "done"
    /\ UNCHANGED <<transport, initSent, torn, running, lpc, attempt, cctx, ch, rh, nextHandle>>
    /\ UNCHANGED <<sendVars, envVars>>
    /\ NoFrameHandled
    /\ UNCHANGED <<healthVars, sweepVars, recVars>>

SendStart_registering(s) ==
    /\ spc[s] \in {"idle", "returned", "raised"}
    /\ EnvLeft
    /\ pending' = DictSet(pending, nextId, s)
    /\ fut' = [fut EXCEPT ![s] = [state |-> "pending", result |-> NoFrame]]
    /\ sid' = [sid EXCEPT ![s] = nextId]
    /\ sh' = [sh EXCEPT ![s] = ws]
    /\ spc' = [spc EXCEPT ![s] = IF ws = None THEN "raised" ELSE "sending"]
    /\ nextId' = nextId + 1
    /\ envLeft' = envLeft - 1
    /\ sres' = [sres EXCEPT ![s] = NoFrame]
    /\ UNCHANGED <<ws, transport, initSent, torn, running, lpc, attempt, cctx, ch, rh,
                   dpc, nextHandle>>
    /\ NoFrameHandled
    /\ UNCHANGED <<healthVars, sweepVars, recVars>>

(***************************************************************************)
(* send_command(wait_response=True) / _send_command_with_response          *)
(***************************************************************************)
SendStart(s) ==
    /\ spc[s] \in {"idle", "returned", "raised"}
    /\ EnvLeft
    /\ IF ws = None THEN
           /\ spc' = [spc EXCEPT ![s] = "raised"]
           /\ sres' = [sres EXCEPT ![s] = NoFrame]
           /\ UNCHANGED <<pending, fut, sid, sh, nextId, envLeft>>
       ELSE
           /\ pending' = DictSet(pending, nextId, s)
           /\ fut' = [fut EXCEPT ![s] = [state |-> "pending", result |-> NoFrame]]
           /\ sid' = [sid EXCEPT ![s] = nextId]
           /\ sh' = [sh EXCEPT ![s] = ws]
           /\ spc' = [spc EXCEPT ![s] = "sending"]
           /\ nextId' = nextId + 1
           /\ envLeft' = envLeft - 1
           /\ sres' = [sres EXCEPT ![s] = NoFrame]
    /\ UNCHANGED <<ws, transport, initSent, torn, running, lpc, attempt, cctx, ch, rh,
                   dpc, nextHandle>>
    /\ NoFrameHandled
    /\ UNCHANGED <<healthVars, sweepVars, recVars>>

\* await self.ws.send(...) returns, or raises and the finally clause runs
SendComplete(s) ==
    /\ spc[s] = "sending"
    /\ IF transport[sh[s]] = "live" THEN
           /\ spc' = [spc EXCEPT ![s] = "waiting"]
           /\ UNCHANGED pending
       ELSE
           /\ spc' = [spc EXCEPT ![s] = "raised"]
           /\ pending' = DictPop(pending, sid[s])
    /\ UNCHANGED <<ws, transport, initSent, torn, running, lpc, attempt, cctx, ch, rh,
                   dpc, nextHandle, envVars>>
    /\ NoFrameHandled
    /\ UNCHANGED <<healthVars, sweepVars, recVars>>
    /\ UNCHANGED <<fut, sid, sh, sres, nextId>>

\* wait_for returns the future's result; finally pops the entry
SendReturn(s) ==
    /\ spc[s] = "waiting"
    /\ fut[s].state = "done"
    /\ sres' = [sres EXCEPT ![s] = fut[s].result]
    /\ pending' = DictPop(pending, sid[s])
    /\ spc' = [spc EXCEPT ![s] = "returned"]
    /\ UNCHANGED <<ws, transport, initSent, torn, running, lpc, attempt, cctx, ch, rh,
                   dpc, nextHandle, envVars>>
    /\ NoFrameHandled
    /\ UNCHANGED <<healthVars, sweepVars, recVars>>
    /\ UNCHANGED <<fut, sid, sh, nextId>>

\* the timeout of wait_for fires: the future is cancelled
SendTimeout(s) ==
    /\ spc[s] = "waiting"
    /\ fut[s].state = "pending"
    /\ fut' = [fut EXCEPT ![s].state = "cancelled"]
    /\ spc' = [spc EXCEPT ![s] = "timedout"]
    /\ UNCHANGED <<ws, transport, initSent, torn, running, lpc, attempt, cctx, ch, rh,
                   dpc, nextHandle, envVars>>
    /\ NoFrameHandled
    /\ UNCHANGED <<healthVars, sweepVars, recVars>>
    /\ UNCHANGED <<pending, sid, sh, sres, nextId>>

SendTimeoutExit_nopop(s) ==
    /\ spc[s] = "timedout"
    /\ sres' = [sres EXCEPT ![s] = NoFrame]
    /\ spc' = [spc EXCEPT ![s] = "returned"]
    /\ UNCHANGED <<ws, transport, initSent, torn, running, lpc, attempt, cctx, ch, rh,
                   dpc, nextHandle, envVars>>
    /\ NoFrameHandled
    /\ UNCHANGED <<healthVars, sweepVars, recVars>>
    /\ UNCHANGED <<pending, fut, sid, sh, nextId>>

\* except asyncio.TimeoutError: return None; finally pops the entry
SendTimeoutExit(s) ==
    /\ spc[s] = "timedout"
    /\ sres' = [sres EXCEPT ![s] = NoFrame]
    /\ pending' = DictPop(pending, sid[s])
    /\ spc' = [spc EXCEPT ![s] = "returned"]
    /\ UNCHANGED <<ws, transport, initSent, torn, running, lpc, attempt, cctx, ch, rh,
                   dpc, nextHandle, envVars>>
    /\ NoFrameHandled
    /\ UNCHANGED <<healthVars, sweepVars, recVars>>
    /\ UNCHANGED <<fut, sid, sh, nextId>>

(***************************************************************************)
(* The gateway drops a transport, with an error or with a normal closure   *)
(***************************************************************************)
Drop(h, how) ==
    /\ transport[h] = "live"
    /\ EnvLeft
    /\ envLeft' = envLeft - 1
    /\ transport' = [transport EXCEPT ![h] = how]
    /\ UNCHANGED <<ws, initSent, torn, running, lpc, attempt, cctx, ch, rh, dpc,
                   nextHandle>>
    /\ UNCHANGED sendVars
    /\ NoFrameHandled
    /\ UNCHANGED <<healthVars, sweepVars, recVars>>

(***************************************************************************)
(* DeviceHealthChecker                                                     *)
(***************************************************************************)
is_standalone(d) == d \in {"T8B0S2"}

DictGet(m, k, dflt) == IF k \in DOMAIN m THEN m[k] ELSE dflt

\* DeviceHealthChecker.__init__ with no persisted offline document;
\* faults: the writes of the offline document that can fail
HealthInit(faults) ==
    /\ failure_counts = EmptyDict
    /\ offline_devices_timestamps = EmptyDict
    /\ offline_file = EmptyDict
    /\ offlineSaveFaults = faults
    /\ restarts = 0
    /\ stopReturned = {}
    /\ last_battery_alert = EmptyDict
    /\ hpc = "sleep"
    /\ hcam = 0
    /\ hnow = 0
    /\ batNow = 0
    /\ batTried = EmptyDict
    /\ ticks = 0
    /\ up = [d \in Devices |-> TRUE]
    /\ offlineAlerts = [d \in Devices |-> 0]
    /\ sinceSuccess = [d \in Devices |-> 0]
    /\ sinceClear = [d \in Devices |-> 0]
    /\ scen = [d \in Devices |-> "start"]
    /\ errorSink = {}

\* what one tick did with a device: "skip" | "purge" | "ok" | "fail" | "mixed"
ScenNext(s, o, u) ==
    IF o = "purge" THEN (IF s = "F3" THEN "T4probe" ELSE "off")
    ELSE IF s = "start" /\ o = "fail" THEN "F1"
    ELSE IF s = "F1" /\ o = "fail" THEN "F2"
    ELSE IF s = "F2" /\ o = "fail" THEN "F3"
    ELSE IF s = "F3" /\ o = "skip" THEN (IF u THEN "T4skipUp" ELSE "T4skipDown")
    ELSE IF s = "T4probe" /\ o = "ok" THEN "T4ok"
    ELSE IF s = "T4probe" /\ o = "fail" THEN "T4fail"
    ELSE "off"

Observed(d, o) == scen' = [scen EXCEPT ![d] = ScenNext(scen[d], o, up[d])]

\* datetime.isoformat of a stamp: the calendar day and the hour of the day
isoformat(t) == <<t \div 24, t % 24>>

\* datetime.fromisoformat; FALSE where it raises ValueError
IsIso(str) ==
    /\ DOMAIN str = 1..2
    /\ str[1] \in Nat
    /\ str[2] \in 0..23

fromisoformat_time_only(str) == str[2]

fromisoformat(str) == str[1] * 24 + str[2]

\* the document json.dump writes for a set of offline records
OfflineDocument(offline) == [d \in DOMAIN offline |-> isoformat(offline[d])]

\* _load_offline_devices() at time now; a file that is missing, or cut
\* short by a failed write, reads as the empty document
_load_offline_devices(file, now) ==
    [d \in DOMAIN file |-> IF IsIso(file[d]) THEN fromisoformat(file[d]) ELSE now]

\* what a write of the file can do: complete, fail before the file is
\* opened, or fail after open(..., "w") has truncated it
OfflineWrites == {"written", "unopened", "truncated"}

\* _save_offline_devices(): a failure is logged and swallowed
Saved(offline) ==
    \E w \in OfflineWrites :
        /\ w # "written" => offlineSaveFaults > 0
        /\ offlineSaveFaults' = IF w = "written" THEN offlineSaveFaults
                                ELSE offlineSaveFaults - 1
        /\ offline_file' = CASE w = "written" -> OfflineDocument(offline)
                              [] w = "unopened" -> offline_file
                              [] w = "truncated" -> EmptyDict

_check_camera_health_no_cooldown(i) ==
    LET d == Cams[i] IN
    /\ hcam' = i
    /\ hpc' = IF is_standalone(d) THEN "connect" ELSE "props"
    /\ UNCHANGED <<failure_counts, offline_devices_timestamps, offline_file, offlineSaveFaults,
                   sinceClear>>
    /\ IF d \in DOMAIN offline_devices_timestamps
       THEN Observed(d, "purge") ELSE UNCHANGED scen

_check_camera_health_inclusive(i) ==
    LET d == Cams[i] IN
    /\ hcam' = i
    /\ IF d \in DOMAIN offline_devices_timestamps THEN
           IF hnow - offline_devices_timestamps[d] <= OfflineCooldownHours THEN
               /\ hpc' = "gap"
               /\ UNCHANGED <<failure_counts, offline_devices_timestamps,
                              offline_file, offlineSaveFaults, sinceClear>>
               /\ Observed(d, "skip")
           ELSE
               /\ offline_devices_timestamps' = DictPop(offline_devices_timestamps, d)
               /\ Saved(offline_devices_timestamps')
               /\ failure_counts' = DictPop(failure_counts, d)
               /\ sinceClear' = [sinceClear EXCEPT ![d] = 0]
               /\ hpc' = IF is_standalone(d) THEN "connect" ELSE "props"
               /\ Observed(d, "purge")
       ELSE
           /\ hpc' = IF is_standalone(d) THEN "connect" ELSE "props"
           /\ UNCHANGED <<failure_counts, offline_devices_timestamps, offline_file,
                          offlineSaveFaults, sinceClear, scen>>

\* _check_camera_health down to its first command: the cooldown gate
_check_camera_health(i) ==
    LET d == Cams[i] IN
    /\ hcam' = i
    /\ IF d \in DOMAIN offline_devices_timestamps THEN
           IF hnow - offline_devices_timestamps[d] < OfflineCooldownHours THEN
               /\ hpc' = "gap"
               /\ UNCHANGED <<failure_counts, offline_devices_timestamps,
                              offline_file, offlineSaveFaults, sinceClear>>
               /\ Observed(d, "skip")
           ELSE
               /\ offline_devices_timestamps' = DictPop(offline_devices_timestamps, d)
               /\ Saved(offline_devices_timestamps')
               /\ failure_counts' = DictPop(failure_counts, d)
               /\ sinceClear' = [sinceClear EXCEPT ![d] = 0]
               /\ hpc' = IF is_standalone(d) THEN "connect" ELSE "props"
               /\ Observed(d, "purge")
       ELSE
           /\ hpc' = IF is_standalone(d) THEN "connect" ELSE "props"
           /\ UNCHANGED <<failure_counts, offline_devices_timestamps, offline_file, offlineSaveFaults,
                          sinceClear, scen>>

\* _run_loop: the interval sleep ends and _check_all_cameras starts a pass
HealthTick ==
    /\ hpc = "sleep"
    /\ ticks < MaxTicks
    /\ ticks' = ticks + 1
    /\ _check_camera_health(1)
    /\ UNCHANGED <<last_battery_alert, hnow, batNow,
                   batTried, up, offlineAlerts,
                   sinceSuccess, errorSink>>
    /\ UNCHANGED <<chanVars, recVars, sweepVars, restarts, stopReturned>>

\* asyncio.sleep(1) ends: the next camera of the pass, or the interval sleep
GapDone ==
    /\ hpc = "gap"
    /\ IF hcam < Len(Cams) THEN
           _check_camera_health(hcam + 1)
       ELSE
           /\ hpc' = "sleep"
           /\ UNCHANGED <<hcam, failure_counts, offline_devices_timestamps,
                          offline_file, offlineSaveFaults, sinceClear, scen>>
    /\ UNCHANGED <<last_battery_alert, hnow, batNow,
                   batTried, ticks, up, offlineAlerts,
                   sinceSuccess, errorSink>>
    /\ UNCHANGED <<chanVars, recVars, sweepVars, restarts, stopReturned>>

\* what a command awaited by the probe can come back with
ProbeReplies == {"ok", "error", "device_not_found", "none", "raise"}

\* the replies a device can cause: a reachable device answers, an unreachable
\* one does not; the channel can fail the command either way
CanReply(d, r) == IF up[d] THEN r \in {"ok", "raise"} ELSE r # "ok"

BatteryLevels == {"absent", "low", "high"}

_handle_failure_below_threshold(fc, off, d, error_code) ==
    LET failure_count == DictGet(fc, d, 0) + 1 IN
    /\ failure_counts' = DictSet(fc, d, failure_count)
    /\ hpc' = IF failure_count >= failure_threshold - 1 /\ d \notin DOMAIN off
              THEN "offline_alert" ELSE "gap"

\* _handle_failure down to the hand-over of the offline alert;
\* fc, off: the counters and records it finds
_handle_failure(fc, off, d, error_code) ==
    LET failure_count == DictGet(fc, d, 0) + 1 IN
    /\ failure_counts' = DictSet(fc, d, failure_count)
    /\ hpc' = IF error_code = "device_not_found" THEN
                  IF failure_count >= failure_threshold /\ d \notin DOMAIN off
                  THEN "offline_alert" ELSE "gap"
              ELSE
                  IF failure_count >= failure_threshold /\ d \notin DOMAIN off
                  THEN "offline_alert" ELSE "gap"

ProbeFailed_unless_raised(d, r) ==
    IF r = "raise"
    THEN /\ hpc' = "gap"
         /\ UNCHANGED <<failure_counts, offline_devices_timestamps, offline_file,
                        offlineSaveFaults, last_battery_alert, batNow, batTried,
                        sinceSuccess, sinceClear, scen>>
    ELSE /\ _handle_failure(failure_counts, offline_devices_timestamps, d,
                            IF r = "none" THEN "no_response" ELSE r)
         /\ IF hpc' = "gap" THEN Observed(d, "fail") ELSE UNCHANGED scen
         /\ UNCHANGED <<offline_devices_timestamps, offline_file, offlineSaveFaults,
                        last_battery_alert, batNow, batTried, sinceSuccess,
                        sinceClear>>

ProbeFailed_aborting(d, r) ==
    /\ failure_counts' = DictSet(failure_counts, d, DictGet(failure_counts, d, 0) + 1)
    /\ hpc' = "sleep"
    /\ UNCHANGED <<offline_devices_timestamps, offline_file, offlineSaveFaults,
                   last_battery_alert, batNow, batTried, sinceSuccess, sinceClear,
                   scen>>

\* the failure path of a probe whose reply r is not a success
ProbeFailed(d, r) ==
    /\ _handle_failure(failure_counts, offline_devices_timestamps, d,
                       IF r = "raise" THEN "exception"
                       ELSE IF r = "none" THEN "no_response" ELSE r)
    /\ IF hpc' = "gap" THEN Observed(d, "fail") ELSE UNCHANGED scen
    /\ UNCHANGED <<offline_devices_timestamps, offline_file, offlineSaveFaults, last_battery_alert,
                   batNow, batTried, sinceSuccess, sinceClear>>

_handle_online_response_recovered_alert(d, b) ==
    /\ failure_counts' = DictPop(failure_counts, d)
    /\ offline_devices_timestamps' = DictPop(offline_devices_timestamps, d)
    /\ IF d \in DOMAIN offline_devices_timestamps
       THEN Saved(offline_devices_timestamps')
       ELSE UNCHANGED <<offline_file, offlineSaveFaults>>
    /\ sinceSuccess' = [sinceSuccess EXCEPT ![d] = 0]
    /\ sinceClear' = [sinceClear EXCEPT ![d] = 0]
    /\ IF d \in DOMAIN failure_counts THEN hpc' = "offline_alert" /\ UNCHANGED scen
       ELSE hpc' = "gap" /\ Observed(d, "ok")
    /\ UNCHANGED <<last_battery_alert, batNow, batTried>>

\* _handle_online_response with a reply that carries battery level b
_handle_online_response(d, b) ==
    /\ failure_counts' = DictPop(failure_counts, d)
    /\ offline_devices_timestamps' = DictPop(offline_devices_timestamps, d)
    /\ IF d \in DOMAIN offline_devices_timestamps
       THEN Saved(offline_devices_timestamps') ELSE UNCHANGED <<offline_file, offlineSaveFaults>>
    /\ sinceSuccess' = [sinceSuccess EXCEPT ![d] = 0]
    /\ sinceClear' = [sinceClear EXCEPT ![d] = 0]
    /\ Observed(d, "ok")
    /\ IF b = "low" /\ ~(/\ d \in DOMAIN last_battery_alert
                         /\ hnow - last_battery_alert[d] < battery_cooldown_hours)
       THEN hpc' = "battery_alert" /\ batNow' = hnow
                                   /\ batTried' = DictSet(batTried, d, hnow)
       ELSE hpc' = "gap" /\ UNCHANGED <<batNow, batTried>>
    /\ UNCHANGED last_battery_alert

\* _handle_online_response(None): the counter and the record are removed,
\* then response.get raises and the except clause calls _handle_failure
OnlineThenFailure(d) ==
    /\ offline_devices_timestamps' = DictPop(offline_devices_timestamps, d)
    /\ IF d \in DOMAIN offline_devices_timestamps
       THEN Saved(offline_devices_timestamps') ELSE UNCHANGED <<offline_file, offlineSaveFaults>>
    /\ sinceSuccess' = [sinceSuccess EXCEPT ![d] = 0]
    /\ sinceClear' = [sinceClear EXCEPT ![d] = 0]
    /\ _handle_failure(DictPop(failure_counts, d), offline_devices_timestamps', d,
                       "exception")
    /\ IF hpc' = "gap" THEN Observed(d, "mixed") ELSE UNCHANGED scen
    /\ UNCHANGED <<last_battery_alert, batNow, batTried>>

\* station.connect of a standalone camera comes back
ConnectResult(r) ==
    LET d == Cams[hcam] IN
    /\ hpc = "connect"
    /\ CanReply(d, r)
    /\ IF r = "ok" THEN
           /\ hpc' = "props"
           /\ UNCHANGED <<failure_counts, offline_devices_timestamps, offline_file, offlineSaveFaults,
                          last_battery_alert, batNow,
                   batTried, sinceSuccess, sinceClear, scen>>
       ELSE ProbeFailed(d, r)
    /\ UNCHANGED <<hcam, hnow, ticks, up, offlineAlerts, errorSink>>
    /\ UNCHANGED <<chanVars, recVars, sweepVars, restarts, stopReturned>>

\* device.get_properties comes back
PropsResult(r, b) ==
    LET d == Cams[hcam] IN
    /\ hpc = "props"
    /\ CanReply(d, r)
    /\ b # "absent" => r = "ok"
    /\ IF is_standalone(d) THEN
           IF r = "raise" THEN ProbeFailed(d, r)
           ELSE IF r = "none" THEN OnlineThenFailure(d)
           ELSE _handle_online_response(d, b)
       ELSE
           IF r = "ok" THEN _handle_online_response(d, b)
           ELSE ProbeFailed(d, r)
    /\ UNCHANGED <<hcam, hnow, ticks, up, offlineAlerts, errorSink>>
    /\ UNCHANGED <<chanVars, recVars, sweepVars, restarts, stopReturned>>

OfflineAlertDone_unreported(delivered) ==
    LET d == Cams[hcam] IN
    /\ hpc = "offline_alert"
    /\ offlineAlerts' = [offlineAlerts EXCEPT ![d] = @ + 1]
    /\ sinceSuccess' = [sinceSuccess EXCEPT ![d] = @ + 1]
    /\ sinceClear' = [sinceClear EXCEPT ![d] = @ + 1]
    /\ offline_devices_timestamps' = DictSet(offline_devices_timestamps, d, hnow)
    /\ Saved(offline_devices_timestamps')
    /\ hpc' = "gap"
    /\ Observed(d, "fail")
    /\ UNCHANGED <<failure_counts, last_battery_alert, hcam, hnow, batNow,
                   batTried, ticks, up, errorSink>>
    /\ UNCHANGED <<chanVars, recVars, sweepVars, restarts, stopReturned>>

OfflineAlertDone_stamp_if_delivered(delivered) ==
    LET d == Cams[hcam] IN
    /\ hpc = "offline_alert"
    /\ offlineAlerts' = [offlineAlerts EXCEPT ![d] = @ + 1]
    /\ sinceSuccess' = [sinceSuccess EXCEPT ![d] = @ + 1]
    /\ sinceClear' = [sinceClear EXCEPT ![d] = @ + 1]
    /\ IF delivered THEN
           /\ offline_devices_timestamps' = DictSet(offline_devices_timestamps, d, hnow)
           /\ Saved(offline_devices_timestamps')
           /\ UNCHANGED errorSink
       ELSE
           /\ errorSink' = errorSink \cup {"camera_offline_webhook"}
           /\ UNCHANGED <<offline_devices_timestamps, offline_file,
                          offlineSaveFaults>>
    /\ hpc' = "gap"
    /\ Observed(d, "fail")
    /\ UNCHANGED <<failure_counts, last_battery_alert, hcam, hnow, batNow,
                   batTried, ticks, up>>
    /\ UNCHANGED <<chanVars, recVars, sweepVars, restarts, stopReturned>>

\* _send_offline_alert comes back (delivered, or given up after the retries),
\* then the record is stamped and saved
OfflineAlertDone(delivered) ==
    LET d == Cams[hcam] IN
    /\ hpc = "offline_alert"
    /\ offlineAlerts' = [offlineAlerts EXCEPT ![d] = @ + 1]
    /\ sinceSuccess' = [sinceSuccess EXCEPT ![d] = @ + 1]
    /\ sinceClear' = [sinceClear EXCEPT ![d] = @ + 1]
    /\ errorSink' = IF delivered THEN errorSink
                    ELSE errorSink \cup {"camera_offline_webhook"}
    /\ offline_devices_timestamps' = DictSet(offline_devices_timestamps, d, hnow)
    /\ Saved(offline_devices_timestamps')
    /\ hpc' = "gap"
    /\ Observed(d, "fail")
    /\ UNCHANGED <<failure_counts, last_battery_alert, hcam, hnow, batNow,
                   batTried, ticks, up>>
    /\ UNCHANGED <<chanVars, recVars, sweepVars, restarts, stopReturned>>

\* _send_low_battery_alert comes back
BatteryAlertDone(delivered) ==
    LET d == Cams[hcam] IN
    /\ hpc = "battery_alert"
    /\ IF delivered THEN
           /\ last_battery_alert' = DictSet(last_battery_alert, d, batNow)
           /\ UNCHANGED errorSink
       ELSE
           /\ errorSink' = errorSink \cup {"low_battery_webhook"}
           /\ UNCHANGED last_battery_alert
    /\ hpc' = "gap"
    /\ UNCHANGED <<failure_counts, offline_devices_timestamps, offline_file, offlineSaveFaults, hcam,
                   hnow, batNow,
                   batTried, ticks, up, offlineAlerts, sinceSuccess, sinceClear,
                   scen>>
    /\ UNCHANGED <<chanVars, recVars, sweepVars, restarts, stopReturned>>

\* wall-clock time passes
HoursPass ==
    /\ hnow + HoursPerStep <= MaxHours
    /\ hnow' = hnow + HoursPerStep
    /\ UNCHANGED <<failure_counts, offline_devices_timestamps, offline_file, offlineSaveFaults,
                   last_battery_alert, hpc, hcam, batNow,
                   batTried, ticks, up, offlineAlerts,
                   sinceSuccess, sinceClear, scen, errorSink>>
    /\ UNCHANGED <<chanVars, recVars, sweepVars, restarts, stopReturned>>

\* a device becomes unreachable, or reachable again
Reachability(d) ==
    /\ up' = [up EXCEPT ![d] = ~up[d]]
    /\ UNCHANGED <<failure_counts, offline_devices_timestamps, offline_file, offlineSaveFaults,
                   last_battery_alert, hpc, hcam, hnow, batNow,
                   batTried, ticks, offlineAlerts,
                   sinceSuccess, sinceClear, scen, errorSink>>
    /\ UNCHANGED <<chanVars, recVars, sweepVars, restarts, stopReturned>>

\* the process ends at any point and is started again: __init__ builds a
\* new monitor from the persisted offline document and start() runs its loop
Restart ==
    /\ restarts < MaxRestarts
    /\ restarts' = restarts + 1
    /\ failure_counts' = EmptyDict
    /\ offline_devices_timestamps' = _load_offline_devices(offline_file, hnow)
    /\ last_battery_alert' = EmptyDict
    /\ hpc' = "sleep"
    /\ hcam' = 0
    /\ batNow' = 0
    /\ UNCHANGED <<offline_file, offlineSaveFaults, hnow, ticks, up, offlineAlerts,
                   sinceSuccess, sinceClear, scen, errorSink, batTried,
                   stopReturned>>
    /\ UNCHANGED <<chanVars, recVars, sweepVars>>

\* the process is killed at any point and started again.  An offline alert
\* whose send_event is still awaited has reached the webhook (sent) or not.
Crash(sent) ==
    /\ restarts < MaxRestarts
    /\ restarts' = restarts + 1
    /\ failure_counts' = EmptyDict
    /\ offline_devices_timestamps' = _load_offline_devices(offline_file, hnow)
    /\ last_battery_alert' = EmptyDict
    /\ hpc' = "sleep"
    /\ hcam' = 0
    /\ batNow' = 0
    /\ IF hpc = "offline_alert" /\ sent
       THEN /\ offlineAlerts' = [offlineAlerts EXCEPT ![Cams[hcam]] = @ + 1]
            /\ sinceSuccess' = [sinceSuccess EXCEPT ![Cams[hcam]] = @ + 1]
            /\ sinceClear' = [sinceClear EXCEPT ![Cams[hcam]] = @ + 1]
       ELSE UNCHANGED <<offlineAlerts, sinceSuccess, sinceClear>>
    /\ UNCHANGED <<offline_file, offlineSaveFaults, hnow, ticks, up, scen,
                   errorSink, batTried, stopReturned>>
    /\ UNCHANGED <<chanVars, recVars, sweepVars>>

HealthStop_flag_only ==
    /\ "health" \notin stopReturned
    /\ stopReturned' = stopReturned \cup {"health"}
    /\ UNCHANGED <<failure_counts, offline_devices_timestamps, offline_file,
                   last_battery_alert, hpc, hcam, hnow, batNow, ticks, up,
                   offlineAlerts, sinceSuccess, sinceClear, scen, errorSink,
                   batTried, offlineSaveFaults, restarts>>
    /\ UNCHANGED <<chanVars, recVars, sweepVars>>

\* DeviceHealthChecker.stop() from its call to its return: the flag is
\* cleared, the loop task is cancelled at the await it is suspended in, the
\* CancelledError ends _run_loop, and `await self._task` returns
HealthStop ==
    /\ "health" \notin stopReturned
    /\ stopReturned' = stopReturned \cup {"health"}
    /\ hpc' = "stopped"
    /\ UNCHANGED <<failure_counts, offline_devices_timestamps, offline_file,
                   last_battery_alert, hcam, hnow, batNow, ticks, up,
                   offlineAlerts, sinceSuccess, sinceClear, scen, errorSink,
                   batTried, offlineSaveFaults, restarts>>
    /\ UNCHANGED <<chanVars, recVars, sweepVars>>

HealthNext ==
    \/ HealthTick
    \/ GapDone
    \/ \E r \in ProbeReplies : ConnectResult(r)
    \/ \E r \in ProbeReplies, b \in BatteryLevels : PropsResult(r, b)
    \/ \E delivered \in BOOLEAN : OfflineAlertDone(delivered)
    \/ \E delivered \in BOOLEAN : BatteryAlertDone(delivered)
    \/ HoursPass
    \/ \E d \in Devices : Reachability(d)

(***************************************************************************)
(* CameraRegistry, motion event log, StateTimeoutChecker                   *)
(***************************************************************************)
NoAlert == [event |-> "none"]

NoClosing == [payload |-> NoAlert, log |-> <<>>]

\* serials motion notifications can name: the directory's and a foreign one
Serials == Devices \cup {"T8999X9"}

\* the states a directory file can hold for its cameras
AllClosed == {[d \in Devices |-> "closed"]}
AnyState == [Devices -> {"closed", "open"}]

\* CameraRegistry.load() of a directory file whose states are one of `loaded`;
\* the event-log buffers start empty
SweepInit(loaded, faults) ==
    /\ \E st \in loaded :
          cameras = [d \in Devices |-> [state |-> st[d], latest_activity |-> 0]]
    /\ registry_file = cameras
    /\ event_log = [d \in Devices |-> <<>>]
    /\ snow = 0
    /\ wpc = "sleep"
    /\ open_cameras = <<>>
    /\ widx = 0
    /\ sweepNow = 0
    /\ closing = NoClosing
    /\ passes = 0
    /\ nextNote = 1
    /\ opens = [d \in Devices |-> 0]
    /\ openedAlerts = [d \in Devices |-> 0]
    /\ closes = [d \in Devices |-> 0]
    /\ closedAlerts = [d \in Devices |-> 0]
    /\ lastClosed = [d \in Devices |-> NoAlert]
    /\ lastDrained = [d \in Devices |-> <<>>]
    /\ lastClose = [d \in Devices |-> "none"]
    /\ saveFaults = faults
    /\ lastSave = "ok"
    /\ lockUse = [e \in {"mutate", "rewrite", "drain"} |-> 0]
    /\ openedAt = [d \in Devices |-> 0]

\* what a call of save() leaves in the file: -1 when open() raised (the file
\* is untouched), n < Len(Cams) when the header and the first n rows were
\* written before a write raised, Len(Cams) when the rewrite completed
SaveOutcomes == (0 - 1)..Len(Cams)

\* the first n rows of the directory, in the order of self.cameras
Written(cams, n) == [d \in {Cams[i] : i \in 1..n} |-> cams[d]]

noSave == UNCHANGED <<registry_file, saveFaults, lastSave>>

save_stale(cams) ==
    \E wrote \in SaveOutcomes :
        /\ wrote < Len(Cams) => saveFaults > 0
        /\ saveFaults' = IF wrote < Len(Cams) THEN saveFaults - 1 ELSE saveFaults
        /\ lastSave' = IF wrote < Len(Cams) THEN "failed" ELSE "ok"
        /\ registry_file' = IF wrote < 0 THEN registry_file
                            ELSE Written(cameras, wrote)

\* CameraRegistry.save(): the full rewrite; an exception is logged and swallowed
save(cams) ==
    \E wrote \in SaveOutcomes :
        /\ wrote < Len(Cams) => saveFaults > 0
        /\ saveFaults' = IF wrote < Len(Cams) THEN saveFaults - 1 ELSE saveFaults
        /\ lastSave' = IF wrote < Len(Cams) THEN "failed" ELSE "ok"
        /\ registry_file' = IF wrote < 0 THEN registry_file
                            ELSE Written(cams, wrote)

\* the lock events of the registry's methods, in program order
save_locking == <<"acquire", "rewrite", "release">>

get_camera_locking == <<"acquire", "read", "release">>

set_state_locking == <<"acquire", "mutate", "release">> \o save_locking

\* _transition_to_closed: get_camera, set_state, then the buffer's drain
close_locking == get_camera_locking \o set_state_locking \o <<"drain">>

\* the hold of the lock (1 for the first acquisition, 2 for the second, ...)
\* inside which event ev of seq happens; 0 when the lock is not held then
HoldOf(seq, ev) ==
    LET k == CHOOSE i \in 1..Len(seq) : seq[i] = ev
        acq == Cardinality({i \in 1..k : seq[i] = "acquire"})
        rel == Cardinality({i \in 1..k : seq[i] = "release"})
    IN IF acq > rel THEN acq ELSE 0

\* CameraRegistry.set_state, with its save
set_state(sn, state) ==
    IF sn \in DOMAIN cameras
    THEN [cameras EXCEPT ![sn].state = state]
    ELSE cameras

\* CameraRegistry.get_cameras_by_state: the matching cameras in directory order
RECURSIVE ByState(_, _)
ByState(i, state) ==
    IF i > Len(Cams) THEN <<>>
    ELSE IF cameras[Cams[i]].state = state
         THEN <<Cams[i]>> \o ByState(i + 1, state)
         ELSE ByState(i + 1, state)

get_cameras_by_state(state) == ByState(1, state)

\* the fields MotionStoppedEvent declares
MotionStoppedFields == {"event", "device_sn", "slack_channel", "state",
                        "duration_seconds", "latest_activity"}

\* MotionStoppedEvent(**kw): the model keeps the fields it declares and
\* ignores any other keyword
MotionStoppedEvent(kw) ==
    [f \in (DOMAIN kw \cap MotionStoppedFields) \cup {"event"} |->
        IF f = "event" THEN "motion_stopped" ELSE kw[f]]

on_motion_always_alerting(sn) ==
    /\ nextNote <= MaxNotes
    /\ nextNote' = nextNote + 1
    /\ IF sn \notin DOMAIN cameras THEN
           /\ noSave
           /\ UNCHANGED <<cameras, event_log, opens, openedAlerts, lastClose,
                          openedAt>>
       ELSE IF cameras[sn].state = "closed" THEN
           /\ cameras' = [cameras EXCEPT ![sn] =
                             [state |-> "open", latest_activity |-> snow]]
           /\ save(cameras')
           /\ event_log' = [event_log EXCEPT ![sn] = <<nextNote>>]
           /\ opens' = [opens EXCEPT ![sn] = @ + 1]
           /\ openedAlerts' = [openedAlerts EXCEPT ![sn] = @ + 1]
           /\ lastClose' = [lastClose EXCEPT ![sn] = "none"]
           /\ openedAt' = [openedAt EXCEPT ![sn] = snow]
       ELSE
           /\ cameras' = [cameras EXCEPT ![sn].latest_activity = snow]
           /\ save(cameras')
           /\ event_log' = [event_log EXCEPT ![sn] = Append(@, nextNote)]
           /\ openedAlerts' = [openedAlerts EXCEPT ![sn] = @ + 1]
           /\ UNCHANGED <<opens, lastClose, openedAt>>
    /\ UNCHANGED <<snow, wpc, open_cameras, widx, sweepNow, closing, passes, closes,
                   closedAlerts, lastClosed, lastDrained, errorSink, lockUse>>
    /\ UNCHANGED <<chanVars, recVars, failure_counts, offline_devices_timestamps,
                   offline_file, offlineSaveFaults, last_battery_alert, hpc, hcam,
                   hnow, batNow, batTried, ticks, up, offlineAlerts, sinceSuccess,
                   sinceClear, scen, restarts, stopReturned>>

\* on_motion and the event-log buffer of the motion state machine
on_motion(sn) ==
    /\ nextNote <= MaxNotes
    /\ nextNote' = nextNote + 1
    /\ IF sn \notin DOMAIN cameras THEN
           /\ noSave
           /\ UNCHANGED <<cameras, event_log, opens, openedAlerts, lastClose,
                          openedAt>>
       ELSE IF cameras[sn].state = "closed" THEN
           /\ cameras' = [cameras EXCEPT ![sn] =
                             [state |-> "open", latest_activity |-> snow]]
           /\ save(cameras')
           /\ event_log' = [event_log EXCEPT ![sn] = <<nextNote>>]
           /\ opens' = [opens EXCEPT ![sn] = @ + 1]
           /\ openedAlerts' = [openedAlerts EXCEPT ![sn] = @ + 1]
           /\ lastClose' = [lastClose EXCEPT ![sn] = "none"]
           /\ openedAt' = [openedAt EXCEPT ![sn] = snow]
       ELSE
           /\ cameras' = [cameras EXCEPT ![sn].latest_activity = snow]
           /\ save(cameras')
           /\ event_log' = [event_log EXCEPT ![sn] = Append(@, nextNote)]
           /\ UNCHANGED <<opens, openedAlerts, lastClose, openedAt>>
    /\ UNCHANGED <<snow, wpc, open_cameras, widx, sweepNow, closing, passes, closes,
                   closedAlerts, lastClosed, lastDrained, errorSink, lockUse>>
    /\ UNCHANGED <<chanVars, recVars, failure_counts, offline_devices_timestamps,
                   offline_file, offlineSaveFaults, last_battery_alert, hpc, hcam,
                   hnow, batNow, batTried, ticks, up, offlineAlerts, sinceSuccess,
                   sinceClear, scen, restarts, stopReturned>>

\* motion_handler.get_and_clear_event_log: the buffer after the drain
Cleared(sn) == [event_log EXCEPT ![sn] = <<>>]

FirstDue_any(oc, now, i) == IF i > Len(oc) THEN 0 ELSE i

\* index of the first camera from position i of the list whose time since
\* its last activity has reached the timeout; 0 when there is none
RECURSIVE FirstDue(_, _, _)
FirstDue(oc, now, i) ==
    IF i > Len(oc) THEN 0
    ELSE IF now - cameras[oc[i]].latest_activity >= timeout_minutes THEN i
    ELSE FirstDue(oc, now, i + 1)

_transition_to_closed_no_drain(sn, duration_seconds, lc) ==
    /\ cameras' = set_state(sn, "closed")
    /\ save(cameras')
    /\ UNCHANGED event_log
    /\ closing' = [payload |-> MotionStoppedEvent(
                        [device_sn |-> sn,
                         slack_channel |-> "channel",
                         state |-> "closed",
                         duration_seconds |-> duration_seconds,
                         latest_activity |-> cameras'[sn].latest_activity,
                         event_log |-> event_log[sn]]),
                   log |-> event_log[sn]]
    /\ closes' = [closes EXCEPT ![sn] = @ + 1]
    /\ lastClose' = [lc EXCEPT ![sn] = "sending"]
    /\ lockUse' = [e \in {"mutate", "rewrite", "drain"} |-> HoldOf(close_locking, e)]

\* _transition_to_closed down to `await self.workato_webhook.send_event`
_transition_to_closed(sn, duration_seconds, lc) ==
    /\ cameras' = set_state(sn, "closed")
    /\ save(cameras')
    /\ event_log' = Cleared(sn)
    /\ closing' = [payload |-> MotionStoppedEvent(
                        [device_sn |-> sn,
                         slack_channel |-> "channel",
                         state |-> "closed",
                         duration_seconds |-> duration_seconds,
                         latest_activity |-> cameras'[sn].latest_activity,
                         event_log |-> event_log[sn]]),
                   log |-> event_log[sn]]
    /\ closes' = [closes EXCEPT ![sn] = @ + 1]
    /\ lastClose' = [lc EXCEPT ![sn] = "sending"]
    /\ lockUse' = [e \in {"mutate", "rewrite", "drain"} |-> HoldOf(close_locking, e)]

\* the loop of _check_timeouts from position i of the list to the next
\* blocking await, or to the end of the pass; lc: the close outcomes so far
CheckFrom(oc, now, i, lc) ==
    LET j == FirstDue(oc, now, i) IN
    IF j = 0 THEN
        /\ wpc' = "sleep"
        /\ widx' = 0
        /\ closing' = NoClosing
        /\ lastClose' = lc
        /\ noSave
        /\ UNCHANGED <<cameras, event_log, closes, lockUse>>
    ELSE
        /\ wpc' = "sending"
        /\ widx' = j
        /\ _transition_to_closed(oc[j],
                                 (now - cameras[oc[j]].latest_activity) * 60, lc)

\* _run_loop: the interval sleep ends and _check_timeouts starts a pass
SweepPass ==
    /\ wpc = "sleep"
    /\ passes < MaxPasses
    /\ passes' = passes + 1
    /\ sweepNow' = snow
    /\ open_cameras' = get_cameras_by_state("open")
    /\ CheckFrom(open_cameras', snow, 1, lastClose)
    /\ UNCHANGED <<snow, nextNote, openedAt, opens, openedAlerts, closedAlerts, lastClosed,
                   lastDrained, errorSink>>
    /\ UNCHANGED <<chanVars, recVars, failure_counts, offline_devices_timestamps,
                   offline_file, offlineSaveFaults, last_battery_alert, hpc, hcam,
                   hnow, batNow, batTried, ticks, up, offlineAlerts, sinceSuccess,
                   sinceClear, scen, restarts, stopReturned>>

\* send_event returns, or raises after its retries and the except clause
\* reports to the error sink; then the pass goes on
CloseSent(delivered) ==
    LET sn == open_cameras[widx] IN
    /\ wpc = "sending"
    /\ IF delivered THEN
           /\ closedAlerts' = [closedAlerts EXCEPT ![sn] = @ + 1]
           /\ lastClosed' = [lastClosed EXCEPT ![sn] = closing.payload]
           /\ lastDrained' = [lastDrained EXCEPT ![sn] = closing.log]
           /\ UNCHANGED errorSink
       ELSE
           /\ errorSink' = errorSink \cup {"state_timeout_close"}
           /\ UNCHANGED <<closedAlerts, lastClosed, lastDrained>>
    /\ CheckFrom(open_cameras, sweepNow, widx + 1,
                 [lastClose EXCEPT ![sn] = IF delivered THEN "delivered" ELSE "failed"])
    /\ UNCHANGED <<snow, open_cameras, sweepNow, passes, nextNote, openedAt, opens, openedAlerts>>
    /\ UNCHANGED <<chanVars, recVars, failure_counts, offline_devices_timestamps,
                   offline_file, offlineSaveFaults, last_battery_alert, hpc, hcam,
                   hnow, batNow, batTried, ticks, up, offlineAlerts, sinceSuccess,
                   sinceClear, scen, restarts, stopReturned>>

\* wall-clock time passes
MinutesPass ==
    /\ snow + MinutesPerStep <= MaxMinutes
    /\ snow' = snow + MinutesPerStep
    /\ UNCHANGED <<cameras, registry_file, event_log, wpc, open_cameras, widx,
                   sweepNow, closing, passes, nextNote, openedAt, opens, openedAlerts, closes,
                   closedAlerts, lastClosed, lastDrained, lastClose, saveFaults,
                   lastSave, lockUse>>
    /\ UNCHANGED <<chanVars, recVars, healthVars>>

DirectoryUpdate_creating(sn, op) ==
    /\ cameras' = DictSet(cameras, sn,
                          [state |-> IF op = "activity" THEN "closed" ELSE op,
                           latest_activity |-> snow])
    /\ save(cameras')
    /\ UNCHANGED <<event_log, snow, wpc, open_cameras, widx, sweepNow, closing,
                   passes, nextNote, openedAt, opens, openedAlerts, closes, closedAlerts,
                   lastClosed, lastDrained, lastClose, lockUse>>
    /\ UNCHANGED <<chanVars, recVars, healthVars>>

\* a call of CameraRegistry.update_activity(sn) (op "activity") or of
\* CameraRegistry.set_state(sn, op) by any task, with the save that follows
DirectoryUpdate(sn, op) ==
    /\ IF sn \notin DOMAIN cameras THEN
           /\ noSave
           /\ UNCHANGED cameras
       ELSE
           /\ cameras' = IF op = "activity"
                         THEN [cameras EXCEPT ![sn].latest_activity = snow]
                         ELSE set_state(sn, op)
           /\ save(cameras')
    /\ UNCHANGED <<event_log, snow, wpc, open_cameras, widx, sweepNow, closing,
                   passes, nextNote, openedAt, opens, openedAlerts, closes, closedAlerts,
                   lastClosed, lastDrained, lastClose, lockUse>>
    /\ UNCHANGED <<chanVars, recVars, healthVars>>

\* StateTimeoutChecker.stop() from its call to its return
SweepStop ==
    /\ "sweep" \notin stopReturned
    /\ stopReturned' = stopReturned \cup {"sweep"}
    /\ wpc' = "stopped"
    /\ noSave
    /\ UNCHANGED <<cameras, event_log, snow, open_cameras, widx, sweepNow, closing,
                   passes, nextNote, openedAt, opens, openedAlerts, closes, closedAlerts,
                   lastClosed, lastDrained, lastClose, lockUse>>
    /\ UNCHANGED <<chanVars, recVars, failure_counts, offline_devices_timestamps,
                   offline_file, offlineSaveFaults, last_battery_alert, hpc, hcam,
                   hnow, batNow, batTried, ticks, up, offlineAlerts, sinceSuccess,
                   sinceClear, scen, errorSink, restarts>>

SweepNext ==
    \/ \E sn \in Serials : on_motion(sn)
    \/ SweepPass
    \/ \E delivered \in BOOLEAN : CloseSent(delivered)
    \/ MinutesPass

(***************************************************************************)
(* MotionAlarmHandler: the recording lifecycle of one device.              *)
(* A timer task is a coroutine sleeping until its due time; a task that    *)
(* is cancelled while it sleeps ends at once (except CancelledError:       *)
(* pass).  A task that cancels ITSELF keeps running until its next await   *)
(* that suspends, where CancelledError is raised.                          *)
(***************************************************************************)
\* MotionAlarmHandler.__init__ and MotionState.__init__, VideoRecorder.__init__
RecordingInit ==
    /\ is_recording = FALSE
    /\ active_recordings = FALSE
    /\ no_motion_task = None
    /\ max_duration_task = None
    /\ tasks = {}
    /\ snooze_until = None
    /\ last_motion_time = None
    /\ rnow = 1
    /\ mpc = "idle"
    /\ detectedAlerts = 0
    /\ stoppedAlerts = 0
    /\ recErrors = {}
    /\ lastMotion = "none"

\* WebSocketClient.send_command as the recorder sees it: it raises
\* ConnectionError before any await when there is no handle, otherwise it
\* suspends until the response, the timeout or an error
CommandOutcomes == {"no_handle", "suspends"}

Timer(kind, due) == [kind |-> kind, due |-> due]

\* the tasks MotionState names
Registered == {Timer("no_motion", no_motion_task),
               Timer("max_duration", max_duration_task)}

\* `self` is one of the tasks _stop_recording cancels
SelfCancelled(self) == self \in Registered

\* on_motion_detected with the previous no-motion task left running
on_motion_detected_no_cancel(r) ==
    /\ mpc = "idle"
    /\ IF snooze_until # None /\ rnow < snooze_until
       THEN /\ lastMotion' = "snoozed"
            /\ UNCHANGED <<is_recording, no_motion_task, tasks, last_motion_time,
                           mpc, recErrors>>
       ELSE /\ last_motion_time' = rnow
            /\ IF ~is_recording
               THEN /\ UNCHANGED <<no_motion_task, tasks>>
                    /\ IF active_recordings
                       THEN /\ is_recording' = TRUE
                            /\ mpc' = "announcing"
                            /\ lastMotion' = "started"
                            /\ UNCHANGED recErrors
                       ELSE IF r = "no_handle"
                       THEN /\ recErrors' = recErrors \cup {"start_recording"}
                            /\ lastMotion' = "failed"
                            /\ UNCHANGED <<is_recording, mpc>>
                       ELSE /\ mpc' = "starting"
                            /\ lastMotion' = "starting"
                            /\ UNCHANGED <<is_recording, recErrors>>
               ELSE /\ tasks' = tasks \cup {Timer("no_motion", rnow + motion_timeout)}
                    /\ no_motion_task' = rnow + motion_timeout
                    /\ lastMotion' = "reset"
                    /\ UNCHANGED <<is_recording, mpc, recErrors>>
    /\ UNCHANGED <<active_recordings, max_duration_task, snooze_until, rnow,
                   detectedAlerts, stoppedAlerts>>
    /\ UNCHANGED <<chanVars, healthVars, sweepVars>>

\* MotionAlarmHandler.on_motion_detected up to its first suspension or its
\* return; r is what the gateway command of VideoRecorder.start_recording does
on_motion_detected(r) ==
    /\ mpc = "idle"
    /\ IF snooze_until # None /\ rnow < snooze_until
       THEN /\ lastMotion' = "snoozed"
            /\ UNCHANGED <<is_recording, no_motion_task, tasks, last_motion_time,
                           mpc, recErrors>>
       ELSE /\ last_motion_time' = rnow
            /\ IF ~is_recording
               THEN \* _start_recording: await video_recorder.start_recording
                    /\ UNCHANGED <<no_motion_task, tasks>>
                    /\ IF active_recordings
                       THEN /\ is_recording' = TRUE
                            /\ mpc' = "announcing"
                            /\ lastMotion' = "started"
                            /\ UNCHANGED recErrors
                       ELSE IF r = "no_handle"
                       THEN /\ recErrors' = recErrors \cup {"start_recording"}
                            /\ lastMotion' = "failed"
                            /\ UNCHANGED <<is_recording, mpc>>
                       ELSE /\ mpc' = "starting"
                            /\ lastMotion' = "starting"
                            /\ UNCHANGED <<is_recording, recErrors>>
               ELSE \* reset the no-motion timer
                    /\ tasks' = (tasks \ {Timer("no_motion", no_motion_task)})
                                   \cup {Timer("no_motion", rnow + motion_timeout)}
                    /\ no_motion_task' = rnow + motion_timeout
                    /\ lastMotion' = "reset"
                    /\ UNCHANGED <<is_recording, mpc, recErrors>>
    /\ UNCHANGED <<active_recordings, max_duration_task, snooze_until, rnow,
                   detectedAlerts, stoppedAlerts>>
    /\ UNCHANGED <<chanVars, healthVars, sweepVars>>

\* VideoRecorder.start_recording resumes: the livestream command returned
\* (ok) or raised; _start_recording goes on to its send_event
StartReturned(ok) ==
    /\ mpc = "starting"
    /\ IF ok
       THEN /\ active_recordings' = TRUE
            /\ is_recording' = TRUE
            /\ mpc' = "announcing"
            /\ UNCHANGED recErrors
       ELSE /\ recErrors' = recErrors \cup {"start_recording"}
            /\ mpc' = "idle"
            /\ UNCHANGED <<active_recordings, is_recording>>
    /\ UNCHANGED <<no_motion_task, max_duration_task, tasks, snooze_until,
                   last_motion_time, rnow, detectedAlerts, stoppedAlerts,
                   lastMotion>>
    /\ UNCHANGED <<chanVars, healthVars, sweepVars>>

\* _start_recording resumes from send_event(MotionDetectedEvent): the timers
\* are created after a delivery, the except branch skips them
DetectedSent(delivered) ==
    /\ mpc = "announcing"
    /\ mpc' = "idle"
    /\ IF delivered
       THEN /\ detectedAlerts' = detectedAlerts + 1
            /\ tasks' = tasks \cup {Timer("no_motion", rnow + motion_timeout),
                                    Timer("max_duration", rnow + max_duration)}
            /\ no_motion_task' = rnow + motion_timeout
            /\ max_duration_task' = rnow + max_duration
            /\ UNCHANGED recErrors
       ELSE /\ recErrors' = recErrors \cup {"start_recording"}
            /\ UNCHANGED <<detectedAlerts, tasks, no_motion_task,
                           max_duration_task>>
    /\ UNCHANGED <<is_recording, active_recordings, snooze_until,
                   last_motion_time, rnow, stoppedAlerts, lastMotion>>
    /\ UNCHANGED <<chanVars, healthVars, sweepVars>>

\* _stop_recording returns to its caller instead of being cut by
\* CancelledError at a suspended await
StopReturns(self) ==
    \/ ~is_recording
    \/ ~active_recordings
    \/ ~SelfCancelled(self)

\* MotionAlarmHandler._stop_recording run by the timer task `self`, with
\* VideoRecorder.stop_recording inside it.  r is what the gateway command
\* does, delivered whether the MotionStoppedEvent reaches the webhook.
_stop_recording(self, r, delivered) ==
    IF ~is_recording
    THEN /\ tasks' = tasks \ {self}
         /\ UNCHANGED <<is_recording, active_recordings, stoppedAlerts, recErrors>>
    ELSE \* both timers are cancelled; the caller ends within this step
         /\ tasks' = tasks \ (Registered \cup {self})
         /\ IF ~active_recordings
            THEN \* stop_recording returned None
                 UNCHANGED <<is_recording, active_recordings, stoppedAlerts,
                             recErrors>>
            ELSE IF SelfCancelled(self) /\ r = "suspends"
            THEN \* CancelledError inside send_command's await
                 UNCHANGED <<is_recording, active_recordings, stoppedAlerts,
                             recErrors>>
            ELSE /\ active_recordings' = FALSE
                 /\ is_recording' = FALSE
                 /\ IF SelfCancelled(self)
                    THEN \* CancelledError inside send_event's await
                         /\ stoppedAlerts' = stoppedAlerts
                                               + (IF delivered THEN 1 ELSE 0)
                         /\ UNCHANGED recErrors
                    ELSE /\ stoppedAlerts' = stoppedAlerts
                                               + (IF delivered THEN 1 ELSE 0)
                         /\ recErrors' = IF delivered THEN recErrors
                                         ELSE recErrors \cup {"stop_recording"}

\* the sleep of _wait_for_no_motion is over
NoMotionFire(r, delivered) ==
    /\ \E self \in tasks :
          /\ self.kind = "no_motion"
          /\ rnow >= self.due
          /\ _stop_recording(self, r, delivered)
    /\ UNCHANGED <<no_motion_task, max_duration_task, snooze_until,
                   last_motion_time, rnow, mpc, detectedAlerts, lastMotion>>
    /\ UNCHANGED <<chanVars, healthVars, sweepVars>>

\* the sleep of _wait_for_max_duration is over; the device is snoozed when
\* _stop_recording returns
MaxDurationFire(r, delivered) ==
    /\ \E self \in tasks :
          /\ self.kind = "max_duration"
          /\ rnow >= self.due
          /\ _stop_recording(self, r, delivered)
          /\ snooze_until' = IF StopReturns(self) THEN rnow + snooze_duration
                             ELSE snooze_until
    /\ UNCHANGED <<no_motion_task, max_duration_task, last_motion_time, rnow,
                   mpc, detectedAlerts, lastMotion>>
    /\ UNCHANGED <<chanVars, healthVars, sweepVars>>

\* time passes; a sleep that is over wakes its task first
Tick ==
    /\ rnow < MaxClock
    /\ \A t \in tasks : rnow < t.due
    /\ rnow' = rnow + 1
    /\ UNCHANGED <<is_recording, active_recordings, no_motion_task,
                   max_duration_task, tasks, snooze_until, last_motion_time, mpc,
                   detectedAlerts, stoppedAlerts, recErrors, lastMotion>>
    /\ UNCHANGED <<chanVars, healthVars, sweepVars>>

\* VideoRecorder.write_livestream_data: the encoder died, the recording is
\* dropped from active_recordings
PipeBroken ==
    /\ active_recordings
    /\ active_recordings' = FALSE
    /\ UNCHANGED <<is_recording, no_motion_task, max_duration_task, tasks,
                   snooze_until, last_motion_time, rnow, mpc, detectedAlerts,
                   stoppedAlerts, recErrors, lastMotion>>
    /\ UNCHANGED <<chanVars, healthVars, sweepVars>>

ListenStep ==
    \/ ListenStart
    \/ ConnectRefused
    \/ ConnectAccepted
    \/ InitSendOk
    \/ InitSendFails
    \/ Backoff
    \/ ReconnectSleepDone
    \/ ReadClosedErr
    \/ ReadClosedOK

Init == ChanInit(MaxEnv) /\ HealthInit(0) /\ SweepInit(AllClosed, 0) /\ RecordingInit

Next ==
    \/ ListenStep
    \/ \E f \in Frames : RecvFrame(f)
    \/ \E raised \in BOOLEAN : HandlerDone(raised)
    \/ DisconnectStart
    \/ DisconnectFinish
    \/ \E s \in Senders : SendStart(s)
    \/ \E s \in Senders : SendComplete(s)
    \/ \E s \in Senders : SendReturn(s)
    \/ \E s \in Senders : SendTimeout(s)
    \/ \E s \in Senders : SendTimeoutExit(s)
    \/ \E h \in Handles, how \in {"closedErr", "closedOK"} : Drop(h, how)

Spec == Init /\ [][Next]_vars

(***************************************************************************)
(* The listen loop and disconnect() alone, with more gateway faults        *)
(***************************************************************************)
ListenInit == ChanInit(MaxFaults) /\ HealthInit(0) /\ SweepInit(AllClosed, 0) /\ RecordingInit

ListenNext ==
    \/ ListenStep
    \/ \E f \in Frames : RecvFrame(f)
    \/ \E raised \in BOOLEAN : HandlerDone(raised)
    \/ DisconnectStart
    \/ DisconnectFinish
    \/ \E h \in Handles, how \in {"closedErr", "closedOK"} : Drop(h, how)

ListenSpec == ListenInit /\ [][ListenNext]_vars

\* the listen loop is scheduled whenever it can run
FairListenSpec == ListenSpec /\ WF_vars(ListenStep)

\* The health monitor alone: the channel is idle, replies are the environment's
HealthSpecInit == ChanInit(0) /\ HealthInit(0) /\ SweepInit(AllClosed, 0) /\ RecordingInit

HealthSpec == HealthSpecInit /\ [][HealthNext]_vars

\* The motion state machine and the timeout sweep alone
SweepSpecInit == ChanInit(0) /\ HealthInit(0) /\ SweepInit(AnyState, 0) /\ RecordingInit

SweepSpec == SweepSpecInit /\ [][SweepNext]_vars

\* The health monitor with writes of the offline document that can fail and
\* with restarts of the process
DurableInit ==
    ChanInit(0) /\ HealthInit(MaxOfflineSaveFaults) /\ SweepInit(AllClosed, 0) /\ RecordingInit

DurableNext ==
    \/ HealthTick
    \/ GapDone
    \/ \E r \in ProbeReplies : ConnectResult(r)
    \/ \E r \in ProbeReplies : PropsResult(r, "absent")
    \/ \E delivered \in BOOLEAN : OfflineAlertDone(delivered)
    \/ HoursPass
    \/ \E d \in Devices : Reachability(d)
    \/ Restart

DurableSpec == DurableInit /\ [][DurableNext]_vars

\* The two background loops with their stop(). The loops share no state but
\* the error sink, which neither reads, so a behaviour runs one of them:
\* the monitor's steps are taken while the sweep's side has not moved, and
\* the sweep's steps while the monitor's side has not moved.
SweepQuiet ==
    /\ passes = 0
    /\ nextNote = 1
    /\ snow = 0
    /\ "sweep" \notin stopReturned

HealthQuiet ==
    /\ ticks = 0
    /\ \A d \in Devices : up[d]
    /\ "health" \notin stopReturned

LoopsInit == ChanInit(0) /\ HealthInit(0) /\ SweepInit(AllClosed, 0) /\ RecordingInit

HealthLoopStep ==
    \/ HealthTick
    \/ GapDone
    \/ \E r \in ProbeReplies : ConnectResult(r)
    \/ \E r \in ProbeReplies, b \in BatteryLevels : PropsResult(r, b)
    \/ \E delivered \in BOOLEAN : OfflineAlertDone(delivered)
    \/ \E delivered \in BOOLEAN : BatteryAlertDone(delivered)

SweepLoopStep ==
    \/ SweepPass
    \/ \E delivered \in BOOLEAN : CloseSent(delivered)

LoopsNext ==
    \/ SweepQuiet /\ HealthLoopStep
    \/ SweepQuiet /\ \E d \in Devices : Reachability(d)
    \/ SweepQuiet /\ HealthStop
    \/ HealthQuiet /\ SweepLoopStep
    \/ HealthQuiet /\ \E sn \in Serials : on_motion(sn)
    \/ HealthQuiet /\ MinutesPass
    \/ HealthQuiet /\ SweepStop

LoopsSpec == LoopsInit /\ [][LoopsNext]_vars

\* The directory alone: the calls of its mutators that the listen loop's
\* handlers and the sweep make, in any order, with rewrites of the file that
\* can fail, and motion notifications that name a foreign serial
RegistrySpecInit == ChanInit(0) /\ HealthInit(0) /\ SweepInit(AllClosed, MaxSaveFaults) /\ RecordingInit

RegistryNext ==
    \/ \E sn \in Serials \ Devices : on_motion(sn)
    \/ MinutesPass
    \/ \E sn \in Serials, op \in {"activity", "open", "closed"} : DirectoryUpdate(sn, op)

RegistrySpec == RegistrySpecInit /\ [][RegistryNext]_vars

\* The recording lifecycle of the motion alarm handler alone
RecordInit ==
    ChanInit(0) /\ HealthInit(0) /\ SweepInit(AllClosed, 0) /\ RecordingInit

RecordNext ==
    \/ \E r \in CommandOutcomes : on_motion_detected(r)
    \/ \E ok \in BOOLEAN : StartReturned(ok)
    \/ \E delivered \in BOOLEAN : DetectedSent(delivered)
    \/ \E r \in CommandOutcomes, delivered \in BOOLEAN : NoMotionFire(r, delivered)
    \/ \E r \in CommandOutcomes, delivered \in BOOLEAN : MaxDurationFire(r, delivered)
    \/ Tick
    \/ PipeBroken

RecordSpec == RecordInit /\ [][RecordNext]_vars

\* The health monitor killed and restarted within one cooldown window (no
\* record ages out), with writes of the offline document that succeed
CrashInit ==
    ChanInit(0) /\ HealthInit(0) /\ SweepInit(AllClosed, 0) /\ RecordingInit

CrashNext ==
    \/ HealthTick
    \/ GapDone
    \/ \E r \in ProbeReplies : ConnectResult(r)
    \/ \E r \in ProbeReplies : PropsResult(r, "absent")
    \/ \E delivered \in BOOLEAN : OfflineAlertDone(delivered)
    \/ \E d \in Devices : Reachability(d)
    \/ \E sent \in BOOLEAN : Crash(sent)

CrashSpec == CrashInit /\ [][CrashNext]_vars

\* send_command with no handle raises ConnectionError before it sends
ChannelAllows(r) == ws = None => r = "raise"

\* The health monitor while the channel has no transport handle
NoHandleInit ==
    ChanInit(0) /\ HealthInit(0) /\ SweepInit(AllClosed, 0) /\ RecordingInit

NoHandleNext ==
    \/ HealthTick
    \/ GapDone
    \/ \E r \in ProbeReplies : ChannelAllows(r) /\ ConnectResult(r)
    \/ \E r \in ProbeReplies : ChannelAllows(r) /\ PropsResult(r, "absent")
    \/ \E delivered \in BOOLEAN : OfflineAlertDone(delivered)
    \/ HoursPass
    \/ \E d \in Devices : Reachability(d)

NoHandleSpec == NoHandleInit /\ [][NoHandleNext]_vars

\* The channel with its callers: the listen loop, the senders, the result
\* frames that answer them, disconnect() and the transport drops
SendNext ==
    \/ ListenStep
    \/ \E m \in Ids, p \in 1..2 : RecvFrame(ResultFrame(m, p))
    \/ \E s \in Senders : SendStart(s)
    \/ \E s \in Senders : SendComplete(s)
    \/ \E s \in Senders : SendReturn(s)
    \/ \E s \in Senders : SendTimeout(s)
    \/ \E s \in Senders : SendTimeoutExit(s)
    \/ DisconnectStart
    \/ DisconnectFinish
    \/ \E h \in Handles, how \in {"closedErr", "closedOK"} : Drop(h, how)

SendSpec == Init /\ [][SendNext]_vars

TypeOK ==
    /\ ws \in {None} \cup Handles
    /\ lpc \in {"init", "connecting", "initsend", "backoff", "rsleep", "reading", "handling",
              "exited"}
    /\ DOMAIN pending \subseteq Ids

(***************************************************************************)
(* Properties of the channel                                               *)
(***************************************************************************)
InFlight == {s \in Senders : spc[s] \in {"sending", "waiting", "timedout"}}

\* C1: a waiter is only ever resolved by a result frame that carries the
\* correlation id its send generated, and a send that returns a frame
\* returns exactly the frame its waiter was resolved with.
C1_MatchingResponse ==
    \A s \in Senders :
        /\ fut[s].state = "done" =>
              /\ fut[s].result.type = "result"
              /\ fut[s].result.messageId = sid[s]
        /\ (spc[s] = "returned" /\ sres[s] # NoFrame) =>
              /\ fut[s].state = "done"
              /\ sres[s] = fut[s].result
              /\ sres[s].messageId = sid[s]

\* two sends in flight at once, the later one answered first
C1_Witness ==
    \E s, t \in Senders :
        /\ sid[s] > sid[t]
        /\ spc[s] = "returned" /\ sres[s].type = "result"
        /\ spc[t] = "waiting" /\ fut[t].state = "pending"

\* C6: the pending-request table holds exactly the ids of the sends still
\* in flight; a send that returned (response or timeout) or raised has no
\* entry, and a timed-out send returned the null result.
C6_PendingOnlyInFlight ==
    /\ DOMAIN pending = {sid[s] : s \in InFlight}
    /\ \A s \in Senders :
          (spc[s] = "returned" /\ fut[s].state = "cancelled") => sres[s] = NoFrame

\* one send has timed out and one has raised while sending
C6_Witness ==
    \E s, t \in Senders :
        /\ spc[s] = "returned" /\ fut[s].state = "cancelled"
        /\ spc[t] = "raised" /\ fut[t].state = "pending"

\* C7: handling a result frame whose messageId is not in the pending table
\* resolves no waiter, leaves the table and every sender as they were,
\* invokes no handler and leaves the loop reading.
C7_UnknownResultNoOp ==
    [][(/\ lpc = "reading"
        /\ lastOutcome' = "unknown"
        /\ \E m \in (0..MaxIds) \ DOMAIN pending, p \in 1..2 :
              RecvFrame(ResultFrame(m, p)))
       => /\ UNCHANGED <<pending, fut, spc, sid, sh, sres>>
          /\ lastOutcome' = "unknown"
          /\ lpc' = "reading"
          /\ rh' = rh]_vars

\* an unknown-id result frame was handled while a waiter was outstanding
C7_Witness ==
    /\ lastOutcome = "unknown"
    /\ \E s \in Senders : spc[s] = "waiting" /\ fut[s].state = "pending"

\* C8 as stated: no pending entry of a send written to a transport is left
\* once that transport has been torn down.
C8_NoEntrySurvivesTeardown ==
    \A m \in DOMAIN pending : sh[pending[m]] \notin torn

\* C8 amended: tearing a transport down (disconnect, or the discard in
\* _reconnect) removes no pending entry; entries leave the table only when
\* their own send exits.
C8_TeardownKeepsPending ==
    [][(torn' # torn \/ dpc' # dpc) => pending' = pending]_vars

\* a send is still registered although its transport has been torn down
C8_Witness ==
    \E m \in DOMAIN pending : sh[pending[m]] \in torn /\ ws = None

\* C9: after the loop has discarded a dropped handle, it eventually reads
\* frames from a live handle again, unless a stop is requested.
C9_ReconnectsEventually ==
    [](lpc = "rsleep" => <>((lpc = "reading" /\ transport[rh] = "live") \/ dpc # "idle"))

\* C10: once disconnect() has completed the channel holds no handle.
C10_NoHandleAfterDisconnect ==
    dpc = "done" => ws = None
(***************************************************************************)
(* Properties of the health monitor                                        *)
(***************************************************************************)
OfflineRecorded(d) == d \in DOMAIN offline_devices_timestamps

\* C2 as stated: between two successful probes of a device at most one
\* offline alert is emitted for it.
C2_OneAlertUntilSuccess ==
    \A d \in Devices : sinceSuccess[d] <= 1

\* C2 amended: an offline alert is emitted exactly at the failure that takes
\* the device's counter to failure_threshold while it has no offline record,
\* and the record is stamped with it; while the record exists exactly one
\* alert has been emitted for it and the counter stays at the threshold.  A
\* further alert needs the record to be gone first: by a successful probe,
\* or by the purge of a record that is 24 hours old.
C2_OneAlertPerRecord ==
    /\ [](\A d \in Devices :
            /\ sinceClear[d] = IF OfflineRecorded(d) THEN 1 ELSE 0
            /\ DictGet(failure_counts, d, 0) <= failure_threshold
            /\ OfflineRecorded(d) => DictGet(failure_counts, d, 0) = failure_threshold
            /\ DictGet(failure_counts, d, 0) = failure_threshold =>
                  \/ OfflineRecorded(d)
                  \/ hpc = "offline_alert" /\ Cams[hcam] = d)
    /\ [][\A d \in Devices :
            offlineAlerts'[d] # offlineAlerts[d] =>
                /\ offlineAlerts'[d] = offlineAlerts[d] + 1
                /\ DictGet(failure_counts, d, 0) = failure_threshold
                /\ ~OfflineRecorded(d)
                /\ d \in DOMAIN offline_devices_timestamps']_vars

\* a second offline alert was emitted for a device with no successful probe
\* since the first one
C2_Witness ==
    \E d \in Devices :
        /\ sinceSuccess[d] = 2
        /\ sinceClear[d] = 1
        /\ OfflineRecorded(d)

\* C4 as stated: the fourth tick of a device that failed three ticks and is
\* reachable again probes it successfully and clears its offline record.
C4_Tick4ProbesAndClears ==
    \A d \in Devices :
        scen[d] \in {"T4skipUp", "T4ok"} => (scen[d] = "T4ok" /\ ~OfflineRecorded(d))

\* C4 amended: ticks 1 and 2 emit no alert and stamp nothing; tick 3 emits
\* exactly one offline alert and stamps the record; on the fourth tick the
\* device is probed only if the record is at least 24 hours old.  When it is
\* younger no command is sent, the record and the counter stay and no alert
\* is emitted, whether or not the device is reachable again; when it is
\* older the record is purged, the counter reset and the device probed, and
\* a successful probe leaves no record and emits no alert.
C4_FourTicks ==
    /\ [](\A d \in Devices :
            /\ scen[d] \in {"F1", "F2"} =>
                  offlineAlerts[d] = 0 /\ ~OfflineRecorded(d)
            /\ scen[d] \in {"F3", "T4skipUp", "T4skipDown"} =>
                  /\ offlineAlerts[d] = 1
                  /\ OfflineRecorded(d)
                  /\ DictGet(failure_counts, d, 0) = failure_threshold
            /\ scen[d] = "T4ok" =>
                  /\ offlineAlerts[d] = 1
                  /\ ~OfflineRecorded(d)
                  /\ d \notin DOMAIN failure_counts)
    /\ [][\A d \in Devices :
            (scen[d] = "F3" /\ scen'[d] # "F3") =>
                IF hnow - offline_devices_timestamps[d] < OfflineCooldownHours THEN
                    /\ scen'[d] \in {"T4skipUp", "T4skipDown"}
                    /\ hpc' = "gap"
                    /\ UNCHANGED <<failure_counts, offline_devices_timestamps,
                                   offline_file, offlineAlerts>>
                ELSE
                    /\ scen'[d] = "T4probe"
                    /\ hpc' \in {"connect", "props"}
                    /\ d \notin DOMAIN offline_devices_timestamps'
                    /\ d \notin DOMAIN offline_file'
                    /\ d \notin DOMAIN failure_counts']_vars

\* the fourth tick skipped a device that was reachable again
C4_Witness ==
    \E d \in Devices :
        /\ scen[d] = "T4skipUp"
        /\ up[d]
        /\ hpc = "sleep"
(***************************************************************************)
(* Properties of the motion state machine and the timeout sweep            *)
(***************************************************************************)
CloseInFlight(d) == wpc = "sending" /\ open_cameras[widx] = d

\* C3: every open/close cycle of a device has exactly one 'opened' alert
\* and, once its close has run, exactly one 'closed' alert, and the closed
\* alert carries as its event log the notifications buffered in the cycle.
C3_OneAlertPairPerCycleWithLog ==
    \A d \in Devices :
        /\ openedAlerts[d] = opens[d]
        /\ ~CloseInFlight(d) => closedAlerts[d] = closes[d]
        /\ closedAlerts[d] > 0 =>
              /\ "event_log" \in DOMAIN lastClosed[d]
              /\ lastClosed[d].event_log = lastDrained[d]

\* C5: after a close whose alert could not be delivered, the failure has
\* been reported to the error sink and the device is still in state open,
\* in memory and in the directory file, so that the next pass finds it
\* again.
C5_FailedCloseStaysOpen ==
    \A d \in Devices :
        lastClose[d] = "failed" =>
            /\ "state_timeout_close" \in errorSink
            /\ cameras[d].state = "open"
            /\ registry_file[d].state = "open"

(***************************************************************************)
(* Properties of frame handling in the listen loop                         *)
(***************************************************************************)
DroppedOutcomes == {"error", "dropped", "handler_error"}

\* C11: no inbound frame ends the listen loop.  Handling a frame that is not
\* JSON, a frame of unrecognised shape, an event without a handler, or an
\* event whose handler raises leaves the loop running on the same handle
\* with the handle, the pending table and the waiters untouched, and the
\* next frame can then be read and dispatched.
C11_FrameNeverEndsLoop ==
    /\ [](lastOutcome \in DroppedOutcomes =>
             /\ lpc = "reading"
             /\ transport[rh] = "live" =>
                   ENABLED RecvFrame(EventFrame("event", TRUE, "motion detected")))
    /\ [][((\E f \in Frames : RecvFrame(f)) \/ (\E r \in BOOLEAN : HandlerDone(r)))
          => /\ lpc' \in {"reading", "handling"}
             /\ UNCHANGED <<ws, transport, torn, running, rh, pending>>
             /\ lastOutcome' \in DroppedOutcomes => UNCHANGED fut]_vars

\* a handler has raised and the loop is reading the same live handle again
C11_Witness ==
    /\ lastOutcome = "handler_error"
    /\ lpc = "reading"
    /\ running
    /\ transport[rh] = "live"

\* C12: while the handler invoked for one event has not returned, the loop
\* still reads and processes every further inbound frame of a live handle
\* (results for pending waiters, events for other devices).
C12_LoopReadsWhileHandling ==
    (lpc = "handling" /\ transport[rh] = "live")
        => \A f \in Frames : ENABLED RecvFrame(f)

C14_ClosedAlertCarriesLog ==
    \A d \in Devices :
        (wpc = "sending" /\ open_cameras[widx] = d) =>
            /\ closing.payload.event = "motion_stopped"
            /\ cameras[d].state = "closed"
            /\ registry_file[d].state = "closed"
            /\ event_log[d] = <<>>
            /\ "event_log" \in DOMAIN closing.payload
            /\ closing.payload.event_log = closing.log

\* C15: no step of the sweep (the start of a pass, or its continuation
\* after an alert delivery) closes or changes a device whose time since its
\* last activity, on the clock of that very step, is below the timeout,
\* whatever motion notifications arrived while the pass was suspended.
C15_NoCloseBelowTimeout ==
    [][(SweepPass \/ \E delivered \in BOOLEAN : CloseSent(delivered)) =>
          \A d \in Devices :
              snow - cameras[d].latest_activity < timeout_minutes =>
                  /\ cameras'[d] = cameras[d]
                  /\ event_log'[d] = event_log[d]
                  /\ closes'[d] = closes[d]]_vars

\* a pass listed two open devices, closed the first, and while its alert
\* was being delivered a motion notification refreshed the second, which
\* the pass then left open
C15_Witness ==
    /\ wpc = "sleep"
    /\ Len(open_cameras) = 2
    /\ lastClose[open_cameras[1]] \in {"delivered", "failed"}
    /\ cameras[open_cameras[1]].state = "closed"
    /\ cameras[open_cameras[2]].state = "open"
    /\ cameras[open_cameras[2]].latest_activity > sweepNow
    /\ closes[open_cameras[2]] = 0
    /\ snow - cameras[open_cameras[2]].latest_activity < timeout_minutes

C18_OneHoldPerMutation ==
    (\E d \in Devices : closes[d] > 0) =>
        /\ lockUse.mutate # 0
        /\ lockUse.rewrite = lockUse.mutate
        /\ lockUse.drain = lockUse.mutate

\* C19: whenever the latest rewrite succeeded the file holds the full
\* in-memory directory; every mutator call changes exactly the field it
\* names of the entry it names in memory, whether its rewrite succeeds or
\* fails, and a rewrite that succeeds writes the directory as it then is.
C19_FileFollowsMemory ==
    /\ [](lastSave = "ok" => registry_file = cameras)
    /\ [][\A d \in Devices, op \in {"activity", "open", "closed"} :
            DirectoryUpdate(d, op) =>
                /\ cameras'[d] = IF op = "activity"
                                 THEN [cameras[d] EXCEPT !.latest_activity = snow]
                                 ELSE [cameras[d] EXCEPT !.state = op]
                /\ \A e \in Devices \ {d} : cameras'[e] = cameras[e]
                /\ lastSave' = "ok" => registry_file' = cameras']_vars

\* a rewrite failed, later mutations were made and a later rewrite
\* succeeded: the file holds the directory as it is now
C19_Witness ==
    /\ saveFaults = 0
    /\ lastSave = "ok"
    /\ registry_file = cameras
    /\ \E d \in Devices : cameras[d].state = "open" /\ cameras[d].latest_activity > 0

\* C20: every probe that reaches the success handling (a regular camera's
\* successful property query, a standalone camera's connection check
\* followed by its property query) leaves the device without a
\* failure-counter entry, whatever its count or offline record was before.
C20_SuccessRemovesCounter ==
    [][\A r \in ProbeReplies, b \in BatteryLevels :
          (/\ PropsResult(r, b)
           /\ IF is_standalone(Cams[hcam]) THEN r # "raise" ELSE r = "ok")
          => Cams[hcam] \notin DOMAIN failure_counts']_vars

\* the probe of this tick got as far as the success handling
SuccessHandled(r) == IF is_standalone(Cams[hcam]) THEN r \notin {"raise", "none"}
                     ELSE r = "ok"

Visits(i) ==
    \/ i = 1 /\ HealthTick
    \/ i > 1 /\ hcam = i - 1 /\ GapDone

LowProbe(d) ==
    /\ hpc = "props"
    /\ Cams[hcam] = d
    /\ \E r \in ProbeReplies : PropsResult(r, "low") /\ SuccessHandled(r)

\* device d's previous low-battery alert was handed over less than one
\* cooldown ago
InWindow(d) ==
    /\ d \in DOMAIN batTried
    /\ hnow - batTried[d] < battery_cooldown_hours

\* C23: a low-battery probe that follows the device's previous low-battery
\* alert within one cooldown window sends no second alert, so the two
\* probes yield exactly one alert.
C23_OneAlertPerWindow ==
    [][\A d \in Devices :
          (LowProbe(d) /\ InWindow(d)) => hpc' # "battery_alert"]_vars

\* C24: in every state of the health monitor, a monitor just built from a
\* persisted offline document included, each device that has an offline
\* record has a failure counter of at least failure_threshold.
C24_RecordImpliesCounter ==
    \A d \in DOMAIN offline_devices_timestamps :
        DictGet(failure_counts, d, 0) >= failure_threshold

\* _handle_failure for device d is waiting for its offline alert to come
\* back: the handling of the probe has not completed
FailureHandlingOpen(d) == hpc = "offline_alert" /\ Cams[hcam] = d

\* C25: except while the failure handling of its own probe is still waiting
\* for the offline alert to come back, each device whose failure counter
\* is at least failure_threshold has an offline record.
C25_CounterImpliesRecord ==
    \A d \in Devices :
        (/\ DictGet(failure_counts, d, 0) >= failure_threshold
         /\ ~FailureHandlingOpen(d))
        => d \in DOMAIN offline_devices_timestamps

\* the handling of a device's third failed probe has completed after its
\* offline alert could not be delivered
C25_Witness ==
    \E d \in Devices :
        /\ hpc = "gap"
        /\ Cams[hcam] = d
        /\ DictGet(failure_counts, d, 0) = failure_threshold
        /\ d \in DOMAIN offline_devices_timestamps
        /\ offline_devices_timestamps[d] = hnow
        /\ "camera_offline_webhook" \in errorSink
        /\ \A e \in Devices \ {d} : offlineAlerts[e] = 0

\* this step changes the in-memory offline records of the running monitor
RecordsMutated ==
    /\ offline_devices_timestamps' # offline_devices_timestamps
    /\ restarts' = restarts

\* C26: after every mutation of the offline-record set the persisted
\* document holds exactly the in-memory set, and a monitor constructed after
\* a restart starts with exactly the set the monitor before it had.
C26_DocumentIsMemory ==
    /\ [][RecordsMutated =>
            offline_file' = OfflineDocument(offline_devices_timestamps')]_vars
    /\ [][restarts' # restarts =>
            offline_devices_timestamps' = offline_devices_timestamps]_vars

\* C26: after every mutation of the offline-record set whose rewrite of the
\* document succeeds, the document holds exactly the in-memory set; a
\* rewrite that fails leaves the document as it was or empty, and the
\* mutation stays in memory. A monitor constructed after a restart starts
\* with no failure counters and with exactly the serials and timestamps of
\* the document, which are the set the monitor before it had whenever the
\* document held that set.
C26_DocumentFollowsSuccessfulWrites ==
    /\ [][RecordsMutated =>
            IF offlineSaveFaults' = offlineSaveFaults
            THEN offline_file' = OfflineDocument(offline_devices_timestamps')
            ELSE offline_file' \in {offline_file, EmptyDict}]_vars
    /\ [][restarts' # restarts =>
            /\ DOMAIN offline_devices_timestamps' = DOMAIN offline_file
            /\ OfflineDocument(offline_devices_timestamps') = offline_file
            /\ offline_file = OfflineDocument(offline_devices_timestamps)
                  => offline_devices_timestamps' = offline_devices_timestamps
            /\ failure_counts' = EmptyDict
            /\ UNCHANGED offline_file]_vars

\* a write of the document failed, a later one succeeded, and a monitor
\* constructed after a restart holds a record stamped a day after hour 0,
\* as the document does
C26_Witness ==
    /\ restarts = 1
    /\ offlineSaveFaults = 0
    /\ hpc = "sleep"
    /\ failure_counts = EmptyDict
    /\ \E d \in DOMAIN offline_devices_timestamps :
          offline_devices_timestamps[d] >= 24
    /\ offline_file = OfflineDocument(offline_devices_timestamps)

\* this step handles a failure for the camera the monitor's pass is at: a
\* command that timed out, was answered with an error or raised, or an
\* alert that could not be delivered
HealthFailureStep ==
    \/ \E r \in ProbeReplies \ {"ok"} : ConnectResult(r)
    \/ \E r \in ProbeReplies, b \in BatteryLevels :
          PropsResult(r, b) /\ ~SuccessHandled(r)
    \/ OfflineAlertDone(FALSE)
    \/ BatteryAlertDone(FALSE)

\* C27: a failure while the monitor's pass handles one camera leaves the
\* pass at that camera, in its failure handling or in the pause before the
\* next camera; the pause always leads to the next camera of the list, which
\* is probed or skipped by its own cooldown gate, and the pass ends only
\* after the last camera. A close alert of the sweep that comes back,
\* delivered or failed, is followed in the same step by the close of the
\* next camera of the pass that is past its timeout, and the pass ends
\* only when no such camera is left.
C27_FailureDoesNotEndPass ==
    /\ [][HealthFailureStep =>
            /\ hcam' = hcam
            /\ ticks' = ticks
            /\ hpc' \in {"gap", "offline_alert"}]_vars
    /\ [][GapDone =>
            IF hcam < Len(Cams)
            THEN hcam' = hcam + 1 /\ hpc' \in {"connect", "props", "gap"}
            ELSE hpc' = "sleep"]_vars
    /\ [](hpc = "sleep" /\ ticks > 0 => hcam = Len(Cams))
    /\ [][\A delivered \in BOOLEAN :
            CloseSent(delivered) =>
                LET j == FirstDue(open_cameras, sweepNow, widx + 1) IN
                IF j = 0 THEN wpc' = "sleep"
                ELSE /\ wpc' = "sending"
                     /\ widx' = j
                     /\ cameras'[open_cameras[j]].state = "closed"
                     /\ closes'[open_cameras[j]] = closes[open_cameras[j]] + 1]_vars

\* the first camera's probe failed on the first tick and the second camera
\* of the list is being probed on that tick
C27_Witness ==
    /\ ticks = 1
    /\ hcam = 2
    /\ hpc \in {"connect", "props"}
    /\ DictGet(failure_counts, Cams[1], 0) = 1

\* C28: stop() of either loop can be called wherever the loop is, sleeping
\* between passes or suspended inside a pass; once it has returned the
\* loop's task has ended, and from then on the monitor sends no probe,
\* changes no counter, record or stamp and hands over no alert, and the
\* sweep starts no pass, closes no camera and hands over no alert.
C28_StopEndsLoop ==
    /\ []("health" \notin stopReturned => ENABLED HealthStop)
    /\ []("sweep" \notin stopReturned => ENABLED SweepStop)
    /\ []("health" \in stopReturned => hpc = "stopped")
    /\ []("sweep" \in stopReturned => wpc = "stopped")
    /\ [][hpc = "stopped" =>
            UNCHANGED <<hpc, hcam, ticks, failure_counts,
                        offline_devices_timestamps, offline_file,
                        last_battery_alert, offlineAlerts, batTried,
                        errorSink>>]_vars
    /\ [][wpc = "stopped" =>
            /\ UNCHANGED <<wpc, widx, passes, closing, closes, closedAlerts,
                           lastClosed, lastDrained, errorSink>>
            /\ \A d \in Devices :
                  cameras[d].state = "open" => cameras'[d].state = "open"]_vars

\* stop() returned while the monitor was suspended in the offline alert of a
\* third failed probe: the record was never stamped
C28_Witness ==
    /\ "health" \in stopReturned
    /\ hpc = "stopped"
    /\ hcam > 0
    /\ \E d \in Devices :
          /\ Cams[hcam] = d
          /\ DictGet(failure_counts, d, 0) = failure_threshold
          /\ d \notin DOMAIN offline_devices_timestamps

\* the listen loop is inside a call of connect()
InConnect == lpc \in {"connecting", "initsend", "backoff"}

\* C29: inside connect() the attempt in progress is the first, second or
\* third. The attempt that gets its start_listening command sent on the
\* connection it opened ends the call with no further attempt. An attempt
\* that fails, refused or with the command unsent, is followed by the
\* back-off and the next attempt of the same call while it was the first or
\* the second, and ends the call with the exception when it was the third:
\* every attempt made after that is the first of a new call.
C29_ThreeAttempts ==
    /\ [](InConnect => attempt \in 1..max_attempts)
    /\ [][InitSendOk =>
            /\ ch \in initSent'
            /\ lpc' \in {"reading", "exited", "rsleep"}
               \/ (lpc' = "connecting" /\ attempt' = 1)]_vars
    /\ [][(ConnectRefused \/ InitSendFails) =>
            IF attempt < max_attempts
            THEN lpc' = "backoff" /\ attempt' = attempt
            ELSE \/ lpc' \in {"reading", "exited", "rsleep"}
                 \/ (lpc' = "connecting" /\ attempt' = 1)]_vars
    /\ [][Backoff => lpc' = "connecting" /\ attempt' = attempt + 1]_vars

\* the gateway refused three attempts in a row: the first call of connect()
\* raised into the listen loop, which is now in the sleep of _reconnect
C29_Witness ==
    /\ lpc = "rsleep"
    /\ cctx = "loop"
    /\ attempt = max_attempts
    /\ nextHandle = 1
    /\ ws = None

\* a step of the caller s of send_command
SenderStep(s) ==
    \/ SendStart(s)
    \/ SendComplete(s)
    \/ SendReturn(s)
    \/ SendTimeout(s)
    \/ SendTimeoutExit(s)

\* C30: a send_command issued while self.ws is None raises at once: no
\* request is registered and no future made, and the handle, the
\* transports and the position and attempt count of the listen loop stay as
\* they are. No step of a sender, failing or not, changes the handle or
\* the listen loop, and every new connection is opened by a step of the
\* listen loop.
C30_SendNeverReconnects ==
    /\ [][\A s \in Senders :
            (SendStart(s) /\ ws = None) =>
                /\ spc'[s] = "raised"
                /\ UNCHANGED <<pending, fut, sid, nextId>>]_vars
    /\ [][\A s \in Senders :
            SenderStep(s) =>
                UNCHANGED <<ws, transport, initSent, torn, running, lpc, attempt,
                            cctx, ch, rh, nextHandle>>]_vars
    /\ [][(nextHandle' # nextHandle \/ ws' \notin {ws, None}) => ListenStep]_vars

\* a caller's first send_command found no handle and raised, while the
\* listen loop had not connected yet
C30_Witness ==
    \E s \in Senders :
        /\ spc[s] = "raised"
        /\ sid[s] = None
        /\ ws = None
        /\ nextId = 1
        /\ pending = EmptyDict
(***************************************************************************)
(* Properties of the recording lifecycle                                   *)
(***************************************************************************)
NoMotionFires == \E r \in CommandOutcomes, delivered \in BOOLEAN :
                     NoMotionFire(r, delivered)

\* C31: when the no-motion sleep of a recording device is over, the
\* recording is stopped: the device is marked not recording, the recorder
\* holds no recording of it, and exactly one motion-stopped alert has been
\* delivered for the session.
C31_TimeoutStopsRecording ==
    [][(NoMotionFires /\ is_recording /\ active_recordings)
          => /\ ~is_recording'
             /\ ~active_recordings'
             /\ stoppedAlerts' = stoppedAlerts + 1]_vars

LiveNoMotion == {t \in tasks : t.kind = "no_motion"}

Snoozed == snooze_until # None /\ rnow < snooze_until

C40_RecordingHasTimer ==
    (is_recording /\ mpc = "idle") => LiveNoMotion # {}

\* C33: a device for which an offline alert was sent since its last
\* successful probe has an offline record, also when the process was killed
\* and restarted while the threshold crossing was handled, and no second
\* alert is sent for it before it is probed successfully.
C33_AlertSurvivesCrash ==
    \A d \in Devices :
        sinceSuccess[d] >= 1 => (sinceSuccess[d] = 1 /\ OfflineRecorded(d))

\* C34: the probe of a device either handles a success or handles a
\* failure: a probe that removes the device's offline record or lowers its
\* failure counter leaves the device without a counter entry, it does not
\* count a failure as well.
C34_SuccessXorFailure ==
    [][hpc = "props" =>
          LET d == Cams[hcam] IN
          (\/ OfflineRecorded(d) /\ d \notin DOMAIN offline_devices_timestamps'
           \/ DictGet(failure_counts', d, 0) < DictGet(failure_counts, d, 0))
          => d \notin DOMAIN failure_counts']_vars

\* the command a probe awaits comes back
ProbeReturns == hpc \in {"connect", "props"} /\ hpc' # hpc

\* C35: a probe made while the channel has no handle counts one failure for
\* the probed device, whether the device is reachable or not, and hands
\* over the offline alert exactly when the count reaches failure_threshold
\* and the device has no offline record.
C35_NoHandleIsFailure ==
    [][(ProbeReturns /\ ws = None) =>
          LET d == Cams[hcam]
              failure_count == DictGet(failure_counts, d, 0) + 1
          IN /\ failure_counts' = DictSet(failure_counts, d, failure_count)
             /\ offline_devices_timestamps' = offline_devices_timestamps
             /\ hpc' = IF failure_count >= failure_threshold /\ ~OfflineRecorded(d)
                       THEN "offline_alert" ELSE "gap"]_vars

\* a reachable device was counted offline while the channel had no handle
C35_Witness ==
    /\ ws = None
    /\ \E d \in Devices :
          /\ up[d]
          /\ DictGet(failure_counts, d, 0) = failure_threshold
          /\ OfflineRecorded(d)
          /\ offlineAlerts[d] = 1

\* the offline alert could not be delivered: the failure is reported to the
\* error sink and the record is stamped now, in memory and in the document
FailedDeliveryStep ==
    OfflineAlertDone(FALSE) =>
        LET d == Cams[hcam] IN
        /\ "camera_offline_webhook" \in errorSink'
        /\ d \in DOMAIN offline_devices_timestamps'
        /\ offline_devices_timestamps'[d] = hnow
        /\ offline_file' = OfflineDocument(offline_devices_timestamps')

C37_CleanClosureReconnects ==
    []((lpc = "reading" /\ running /\ transport[rh] = "closedOK")
          => <>(lpc = "rsleep" \/ ~running \/ dpc # "idle"))

\* C38: the loop only reads from a handle on which start_listening was
\* sent, and the handle the channel keeps while the loop reads or handles a
\* frame is one on which it was sent.
C38_ReadsOnlyInitialised ==
    lpc \in {"reading", "handling"} =>
        /\ rh \in initSent
        /\ ws # None => ws \in initSent

\* C39: the duration a closed alert is built with is the time the device
\* was open: from the notification that opened the cycle to the close, which
\* lies between the sweep's clock reading and the present.
C39_DurationIsTimeOpen ==
    [][\A sn \in Devices :
          closes'[sn] = closes[sn] + 1 =>
              /\ closing'.payload.duration_seconds >= (sweepNow' - openedAt[sn]) * 60
              /\ closing'.payload.duration_seconds <= (snow - openedAt[sn]) * 60]_vars

====
